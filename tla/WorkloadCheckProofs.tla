------------------------- MODULE WorkloadCheckProofs -------------------------
(***************************************************************************)
(* For every workload and every grant, the loops of enforcer.rs return the *)
(* verdict the operator check_workload defines.                            *)
(***************************************************************************)
EXTENDS WorkloadCheck, TLAPS

-----------------------------------------------------------------------------
(* Lemmas about payloads and sequences of imports *)

\* The elements of a sequence.
Elements(s) == {s[k] : k \in DOMAIN s}

\* The imports of the first n payloads of w.
ImportsUpTo(w, n) == UNION {Elements(w[k].entries) : k \in 1..n}

\* A payload that is not broken holds a sequence of imports.
LEMMA SoundPayload ==
  ASSUME NEW p \in Payload, ~Broken(p)
  PROVE  p.entries \in Seq(Import)
<1>1. p.entries \in Seq(Import \cup {BadImport})
  <2>1. CASE p \in [kind : {"imports"}, entries : Seq(Import \cup {BadImport})]
    BY <2>1
  <2>2. CASE p.entries = <<>>
    BY <2>2
  <2> QED
    BY <2>1, <2>2 DEF Payload, OtherPayload, ParseError
<1>2. \A e \in 1..Len(p.entries) : p.entries[e] \in Import
  BY <1>1 DEF Broken
<1> QED
  BY <1>1, <1>2

\* Concatenation joins the elements.
LEMMA ConcatElements ==
  ASSUME NEW S, NEW s \in Seq(S), NEW t \in Seq(S)
  PROVE  Elements(s \o t) = Elements(s) \cup Elements(t)
<1>1. /\ DOMAIN s = 1..Len(s) /\ DOMAIN t = 1..Len(t)
      /\ DOMAIN (s \o t) = 1..Len(s) + Len(t)
      /\ Len(s) \in Nat /\ Len(t) \in Nat
  OBVIOUS
<1>2. \A k \in 1..Len(s) : (s \o t)[k] = s[k]
  OBVIOUS
<1>3. \A k \in 1..Len(t) : /\ (s \o t)[Len(s) + k] = t[k]
                           /\ Len(s) + k \in 1..Len(s) + Len(t)
  OBVIOUS
<1>4. \A k \in 1..Len(s) + Len(t) :
        \/ k \in 1..Len(s)
        \/ k - Len(s) \in 1..Len(t) /\ k = Len(s) + (k - Len(s))
  BY <1>1
<1>5. Elements(s) \cup Elements(t) \subseteq Elements(s \o t)
  <2>1. \A k \in 1..Len(s) : s[k] \in Elements(s \o t)
    BY <1>1, <1>2 DEF Elements
  <2>2. \A k \in 1..Len(t) : t[k] \in Elements(s \o t)
    BY <1>1, <1>3 DEF Elements
  <2> QED
    BY <2>1, <2>2, <1>1 DEF Elements
<1>6. Elements(s \o t) \subseteq Elements(s) \cup Elements(t)
  <2> SUFFICES ASSUME NEW k \in 1..Len(s) + Len(t)
               PROVE  (s \o t)[k] \in Elements(s) \cup Elements(t)
    BY <1>1 DEF Elements
  <2>1. CASE k \in 1..Len(s)
    BY <2>1, <1>1, <1>2 DEF Elements
  <2>2. CASE k - Len(s) \in 1..Len(t) /\ k = Len(s) + (k - Len(s))
    BY <2>2, <1>1, <1>3 DEF Elements
  <2> QED
    BY <2>1, <2>2, <1>4
<1> QED
  BY <1>5, <1>6

\* One more payload adds its entries.
LEMMA OneMorePayload ==
  ASSUME NEW w, NEW n \in Nat
  PROVE  ImportsUpTo(w, n + 1) =
           ImportsUpTo(w, n) \cup Elements(w[n + 1].entries)
<1>1. 1..n + 1 = (1..n) \cup {n + 1}
  OBVIOUS
<1>2. \A m, x : x \in ImportsUpTo(w, m) <=>
                  \E k \in 1..m : x \in Elements(w[k].entries)
  BY Zenon DEF ImportsUpTo
<1> QED
  BY <1>1, <1>2, Zenon

-----------------------------------------------------------------------------
(* Type correctness *)

USE WorkloadsAssumption, GrantsAssumption

\* Every variable keeps its type: in particular the cursors of both loops
\* never run past the sequence they index (enforcer.rs:80-119).
THEOREM TypeCorrect == Spec => []TypeOK
<1>1. Init => TypeOK
  BY DEF Init, TypeOK
<1>2. TypeOK /\ [Next]_vars => TypeOK'
  <2> SUFFICES ASSUME TypeOK, [Next]_vars PROVE TypeOK'
    OBVIOUS
  <2> USE DEF TypeOK
  <2>1. CASE ReadPayload
    <3>1. wasm[i] \in Payload
      BY <2>1 DEF ReadPayload
    <3>2. wasm[i].entries \in Seq(Import)
      BY <3>1, <2>1, SoundPayload DEF ReadPayload
    <3>3. imports' \in Seq(Import) /\ Len(imports') = Len(imports) + Len(wasm[i].entries)
      BY <3>2, <2>1 DEF ReadPayload, Collected
    <3> QED
      BY <3>2, <3>3, <2>1 DEF ReadPayload
  <2>2. CASE RejectPayload
    BY <2>2 DEF RejectPayload, Return
  <2>3. CASE EndOfModule
    BY <2>3 DEF EndOfModule
  <2>4. CASE SkipBenign
    BY <2>4 DEF SkipBenign
  <2>5. CASE AcceptImport
    <3>1. imports[j] \in Import
      BY <2>5 DEF AcceptImport, Listed
    <3>2. Bucket(imports[j]) \in Capability
      BY <2>5 DEF AcceptImport, Listed, has_capability
    <3>3. checked' \in Seq(Import \X Capability)
      BY <3>1, <3>2, <2>5 DEF AcceptImport, Listed
    <3> QED
      BY <3>3, <2>5 DEF AcceptImport, Listed
  <2>6. CASE RejectImport
    BY <2>6 DEF RejectImport, Return
  <2>7. CASE Finish
    BY <2>7 DEF Finish, Return
  <2>8. CASE UNCHANGED vars
    BY <2>8 DEF vars
  <2> QED
    BY <2>1, <2>2, <2>3, <2>4, <2>5, <2>6, <2>7, <2>8 DEF Next, Terminated
<1> QED
  BY <1>1, <1>2, PTL DEF Spec

-----------------------------------------------------------------------------
(* The verdict *)

\* What each loop has established so far: extract_imports has read sound
\* payloads only and holds all their imports; check_workload runs on a sound
\* module, with all its imports, and has found the first j - 1 allowed.
LoopInv ==
  /\ pc = "extract" =>
       /\ \A k \in 1..i - 1 : ~Broken(wasm[k])
       /\ Elements(imports) = ImportsUpTo(wasm, i - 1)
       /\ j = 1
  /\ pc = "check" =>
       /\ ~Malformed(wasm)
       /\ Elements(imports) = Imports(wasm)
       /\ \A k \in 1..j - 1 : Allowed(imports[k], granted)
  /\ pc # "done" => result = "none"
  /\ VerdictCorrect

\* The imports of all payloads are the imports of the module.
LEMMA AllPayloads ==
  ASSUME NEW w \in Seq(Payload)
  PROVE  Imports(w) = ImportsUpTo(w, Len(w))
<1>1. DOMAIN w = 1..Len(w)
  OBVIOUS
<1> QED
  BY <1>1, Zenon DEF Imports, ImportsUpTo, Elements

\* The verdict on a sound module, by its imports.
LEMMA VerdictBySoundImports ==
  ASSUME NEW w, NEW g, ~Malformed(w)
  PROVE  /\ (\E imp \in Imports(w) : ~Allowed(imp, g))
              => check_workload(w, g) = "denied"
         /\ (\A imp \in Imports(w) : Allowed(imp, g))
              => check_workload(w, g) = "ok"
BY DEF check_workload

LEMMA LoopStep == TypeOK /\ LoopInv /\ [Next]_vars => LoopInv'
<1> SUFFICES ASSUME TypeOK, LoopInv, [Next]_vars PROVE LoopInv'
  OBVIOUS
<1> USE DEF VerdictCorrect
<1>t. wasm \in Seq(Payload) /\ DOMAIN wasm = 1..Len(wasm) /\ i \in 1..Len(wasm) + 1
  BY DEF TypeOK
<1>1. CASE ReadPayload
  <2>1. wasm[i] \in Payload /\ wasm[i].entries \in Seq(Import)
    BY <1>1, <1>t, SoundPayload DEF ReadPayload, TypeOK
  <2>2. Elements(imports') = Elements(imports) \cup Elements(wasm[i].entries)
    BY <2>1, <1>1, ConcatElements DEF ReadPayload, Collected, TypeOK
  <2>3. i - 1 \in Nat /\ (i - 1) + 1 = i
    BY DEF TypeOK
  <2>4. ImportsUpTo(wasm, i) = ImportsUpTo(wasm, i - 1) \cup Elements(wasm[i].entries)
    BY <2>3, OneMorePayload
  <2>5. \A k \in 1..i : ~Broken(wasm[k])
    BY <1>1, <1>t DEF ReadPayload, LoopInv
  <2>6. i' - 1 = i
    BY <1>1, <1>t DEF ReadPayload
  <2> QED
    BY <2>2, <2>4, <2>5, <2>6, <1>1 DEF ReadPayload, LoopInv
<1>2. CASE RejectPayload
  <2>1. Malformed(wasm)
    BY <1>2, <1>t DEF RejectPayload, Malformed
  <2>2. check_workload(wasm, granted) = "invalid"
    BY <2>1 DEF check_workload
  <2> QED
    BY <2>2, <1>2 DEF RejectPayload, Return, LoopInv
<1>3. CASE EndOfModule
  <2>1. i - 1 = Len(wasm) /\ j = 1
    BY <1>3, <1>t DEF EndOfModule, TypeOK, LoopInv
  <2>2. ~Malformed(wasm)
    BY <2>1, <1>3, <1>t DEF EndOfModule, LoopInv, Malformed
  <2>3. Elements(imports) = Imports(wasm)
    BY <2>1, <1>3, <1>t, AllPayloads DEF EndOfModule, LoopInv
  <2> QED
    BY <2>1, <2>2, <2>3, <1>3 DEF EndOfModule, LoopInv
<1>4. CASE SkipBenign
  <2>1. Allowed(imports[j], granted)
    BY <1>4 DEF SkipBenign, Bucket, Allowed
  <2>2. \A k \in 1..j' - 1 : k \in 1..j - 1 \/ k = j
    BY <1>4 DEF SkipBenign, TypeOK
  <2> QED
    BY <2>1, <2>2, <1>4 DEF SkipBenign, LoopInv
<1>5. CASE AcceptImport
  <2>1. Allowed(imports[j], granted)
    BY <1>5 DEF AcceptImport, Listed, Bucket, Allowed
  <2>2. \A k \in 1..j' - 1 : k \in 1..j - 1 \/ k = j
    BY <1>5 DEF AcceptImport, Listed, TypeOK
  <2> QED
    BY <2>1, <2>2, <1>5 DEF AcceptImport, Listed, LoopInv
<1>6. CASE RejectImport
  <2>1. ~Allowed(imports[j], granted)
    BY <1>6 DEF RejectImport, Bucket, Allowed
  <2>2. imports[j] \in Elements(imports)
    BY <1>6 DEF RejectImport, Elements, TypeOK
  <2>3. check_workload(wasm, granted) = "denied"
    BY <2>1, <2>2, <1>6, VerdictBySoundImports DEF RejectImport, LoopInv
  <2> QED
    BY <2>1, <2>3, <1>6 DEF RejectImport, Return, LoopInv
<1>7. CASE Finish
  <2>1. \A k \in DOMAIN imports : Allowed(imports[k], granted)
    BY <1>7 DEF Finish, LoopInv, TypeOK
  <2>2. \A imp \in Imports(wasm) : Allowed(imp, granted)
    BY <2>1, <1>7 DEF Finish, LoopInv, Elements
  <2>3. check_workload(wasm, granted) = "ok"
    BY <2>2, <1>7, VerdictBySoundImports DEF Finish, LoopInv
  <2> QED
    BY <2>3, <1>7 DEF Finish, Return, LoopInv
<1>8. CASE UNCHANGED vars
  BY <1>8 DEF vars, LoopInv
<1> QED
  BY <1>1, <1>2, <1>3, <1>4, <1>5, <1>6, <1>7, <1>8 DEF Next, Terminated

LEMMA LoopInvariant == Spec => [](TypeOK /\ LoopInv)
<1>1. Init => LoopInv
  <2> SUFFICES ASSUME Init PROVE LoopInv
    OBVIOUS
  <2>1. 1..i - 1 = {}
    BY DEF Init
  <2>2. Elements(imports) = {}
    BY DEF Init, Elements
  <2>3. ImportsUpTo(wasm, i - 1) = {}
    BY <2>1 DEF ImportsUpTo
  <2> QED
    BY <2>1, <2>2, <2>3 DEF Init, LoopInv, VerdictCorrect
<1> QED
  BY <1>1, LoopStep, TypeCorrect, PTL DEF Spec

\* The verdict of the two loops is the operator check_workload, for every
\* payload stream and every grant (enforcer.rs:78-119).
THEOREM VerdictIsCorrect == Spec => []VerdictCorrect
<1>1. LoopInv => VerdictCorrect
  BY DEF LoopInv
<1> QED
  BY <1>1, LoopInvariant, PTL

-----------------------------------------------------------------------------
(* The violation named on a denial, the pairs returned on success *)

\* The entries of the first n payloads of w.
PlacesUpTo(w, n) == UNION {{<<k, e>> : e \in DOMAIN w[k].entries} : k \in 1..n}

\* s lists the imports of the places of w, in module order, by way of at.
ListsPlaces(at, s, w, places) ==
  /\ at \in [DOMAIN s -> places]
  /\ \A m \in DOMAIN s : s[m] = ImportAt(w, at[m])
  /\ \A c, d \in DOMAIN s : c < d => Before(at[c], at[d])
  /\ \A p \in places : \E m \in DOMAIN s : at[m] = p

\* pairs lists the imports before position n that need a bucket, in order, by
\* way of at.
ListsNeeding(at, pairs, s, n) ==
  LET need == {m \in 1..n - 1 : Bucket(s[m]) # Benign} IN
  /\ at \in [DOMAIN pairs -> need]
  /\ \A c \in DOMAIN pairs : pairs[c] = <<s[at[c]], Bucket(s[at[c]])>>
  /\ \A c, d \in DOMAIN pairs : c < d => at[c] < at[d]
  /\ \A m \in need : \E c \in DOMAIN pairs : at[c] = m

\* Where each loop stands: the imports collected are the entries of the
\* payloads read, in module order, and the pairs are those of the imports
\* passed.
OrderInv ==
  /\ pc = "extract" =>
       /\ \E at : ListsPlaces(at, imports, wasm, PlacesUpTo(wasm, i - 1))
       /\ checked = <<>>
  /\ pc = "check" =>
       /\ \E at : ListsPlaces(at, imports, wasm, Places(wasm))
       /\ \E at : ListsNeeding(at, checked, imports, j)
  /\ CheckedInOrder
  /\ FirstViolationReported

\* A place of the first n payloads, by its two coordinates.
LEMMA PlaceUpTo ==
  ASSUME NEW w, NEW n
  PROVE  \A p : p \in PlacesUpTo(w, n) <=>
           \E k \in 1..n : \E e \in DOMAIN w[k].entries : p = <<k, e>>
<1> DEFINE InPayload(k) == {<<k, e>> : e \in DOMAIN w[k].entries}
<1>1. \A p, k : p \in InPayload(k) <=> \E e \in DOMAIN w[k].entries : p = <<k, e>>
  OBVIOUS
<1>2. PlacesUpTo(w, n) = UNION {InPayload(k) : k \in 1..n}
  BY DEF PlacesUpTo
<1> HIDE DEF InPayload
<1>3. \A p : p \in PlacesUpTo(w, n) <=> \E k \in 1..n : p \in InPayload(k)
  BY <1>2, Zenon
<1> QED
  BY <1>1, <1>3, Zenon

\* The imports of one more payload continue the list of those before.
LEMMA OneMoreSection ==
  ASSUME NEW w, NEW n \in Nat, NEW s \in Seq(Import), NEW at,
         w[n + 1].entries \in Seq(Import),
         ListsPlaces(at, s, w, PlacesUpTo(w, n))
  PROVE  \E more : ListsPlaces(more, s \o w[n + 1].entries, w, PlacesUpTo(w, n + 1))
<1> DEFINE t    == w[n + 1].entries
           L    == Len(s)
           T    == Len(t)
           both == s \o t
           P    == PlacesUpTo(w, n)
           Q    == PlacesUpTo(w, n + 1)
           more == [m \in 1..L + T |-> IF m <= L THEN at[m] ELSE <<n + 1, m - L>>]
<1>1. /\ L \in Nat /\ T \in Nat /\ DOMAIN s = 1..L /\ DOMAIN t = 1..T
      /\ DOMAIN both = 1..L + T
      /\ \A m \in 1..L : both[m] = s[m]
      /\ \A e \in 1..T : both[L + e] = t[e]
  OBVIOUS
<1>2. /\ \A p : p \in P <=> \E k \in 1..n : \E e \in DOMAIN w[k].entries : p = <<k, e>>
      /\ \A p : p \in Q <=> \E k \in 1..n + 1 : \E e \in DOMAIN w[k].entries : p = <<k, e>>
  BY PlaceUpTo
<1>3. 1..n + 1 = (1..n) \cup {n + 1}
  OBVIOUS
<1>4. /\ at \in [1..L -> P]
      /\ \A m \in 1..L : s[m] = ImportAt(w, at[m])
      /\ \A c, d \in 1..L : c < d => Before(at[c], at[d])
      /\ \A p \in P : \E m \in 1..L : at[m] = p
  BY <1>1 DEF ListsPlaces
<1>t. t = w[n + 1].entries
  OBVIOUS
<1> HIDE DEF L, T, t, both, P, Q
<1>5. P \subseteq Q /\ \A e \in 1..T : <<n + 1, e>> \in Q
  BY <1>1, <1>2, <1>3, <1>t
<1>6. ASSUME NEW p \in Q
      PROVE  p \in P \/ \E e \in 1..T : p = <<n + 1, e>>
  BY <1>1, <1>2, <1>3, <1>t
<1>7. ASSUME NEW m \in 1..L + T
      PROVE  \/ m \in 1..L /\ m <= L /\ more[m] = at[m]
             \/ /\ m - L \in 1..T /\ m = L + (m - L) /\ ~(m <= L)
                /\ more[m] = <<n + 1, m - L>>
  BY <1>1
<1>8. \A m \in 1..L : m \in 1..L + T /\ more[m] = at[m]
  BY <1>1
<1>9. \A e \in 1..T : L + e \in 1..L + T /\ more[L + e] = <<n + 1, e>>
  BY <1>1
<1>10. DOMAIN more = 1..L + T /\ more = [m \in 1..L + T |-> more[m]]
  OBVIOUS
<1> HIDE DEF more
<1>11. more \in [1..L + T -> Q]
  <2>1. \A m \in 1..L + T : more[m] \in Q
    BY <1>4, <1>5, <1>7
  <2> QED
    BY <1>10, <2>1
<1>12. ASSUME NEW m \in 1..L + T PROVE both[m] = ImportAt(w, more[m])
  <2>1. CASE m \in 1..L /\ more[m] = at[m]
    BY <1>1, <1>4, <2>1
  <2>2. CASE m - L \in 1..T /\ m = L + (m - L) /\ more[m] = <<n + 1, m - L>>
    <3>1. both[m] = t[m - L]
      BY <1>1, <2>2
    <3>2. ImportAt(w, <<n + 1, m - L>>) = t[m - L]
      BY <1>t DEF ImportAt
    <3> QED
      BY <2>2, <3>1, <3>2
  <2> QED
    BY <1>7, <2>1, <2>2
<1>13. ASSUME NEW c \in 1..L + T, NEW d \in 1..L + T, c < d
       PROVE  Before(more[c], more[d])
  <2>1. CASE d \in 1..L /\ more[d] = at[d]
    <3>1. c \in 1..L
      BY <1>1, <1>13, <2>1
    <3> QED
      BY <1>4, <1>8, <1>13, <2>1, <3>1
  <2>2. CASE d - L \in 1..T /\ more[d] = <<n + 1, d - L>>
    <3>1. CASE c \in 1..L /\ more[c] = at[c]
      <4>1. at[c] \in P
        BY <1>4, <3>1
      <4>2. PICK k \in 1..n : \E e \in DOMAIN w[k].entries : at[c] = <<k, e>>
        BY <1>2, <4>1
      <4>3. k < n + 1
        OBVIOUS
      <4> QED
        BY <2>2, <3>1, <4>2, <4>3 DEF Before
    <3>2. CASE c - L \in 1..T /\ more[c] = <<n + 1, c - L>>
      <4>1. c - L < d - L
        BY <1>1, <1>13
      <4> QED
        BY <2>2, <3>2, <4>1 DEF Before
    <3> QED
      BY <1>7, <3>1, <3>2
  <2> QED
    BY <1>7, <2>1, <2>2
<1>14. ASSUME NEW p \in Q PROVE \E m \in 1..L + T : more[m] = p
  <2>1. CASE p \in P
    BY <1>4, <1>8, <2>1
  <2>2. CASE \E e \in 1..T : p = <<n + 1, e>>
    BY <1>9, <2>2
  <2> QED
    BY <1>6, <2>1, <2>2
<1>15. DOMAIN both = 1..L + T
  BY <1>1
<1>16. ListsPlaces(more, both, w, Q)
  BY <1>11, <1>12, <1>13, <1>14, <1>15 DEF ListsPlaces
<1> QED
  BY <1>16 DEF both, Q, t

\* An import that needs no bucket leaves the pairs as they are.
LEMMA PassedBenign ==
  ASSUME NEW s, NEW n \in Nat \ {0}, NEW pairs, NEW at,
         ListsNeeding(at, pairs, s, n), Bucket(s[n]) = Benign
  PROVE  ListsNeeding(at, pairs, s, n + 1)
<1>1. 1..(n + 1) - 1 = (1..n - 1) \cup {n}
  OBVIOUS
<1>2. {m \in 1..(n + 1) - 1 : Bucket(s[m]) # Benign} = {m \in 1..n - 1 : Bucket(s[m]) # Benign}
  BY <1>1
<1> QED
  BY <1>2, Zenon DEF ListsNeeding

\* An import that needs a bucket adds its pair at the end.
LEMMA PassedNeeding ==
  ASSUME NEW S, NEW s, NEW n \in Nat \ {0}, NEW pairs \in Seq(S), NEW at,
         <<s[n], Bucket(s[n])>> \in S,
         ListsNeeding(at, pairs, s, n), Bucket(s[n]) # Benign
  PROVE  \E more : ListsNeeding(more, Append(pairs, <<s[n], Bucket(s[n])>>), s, n + 1)
<1> DEFINE L      == Len(pairs)
           pair   == <<s[n], Bucket(s[n])>>
           longer == Append(pairs, pair)
           need   == {m \in 1..n - 1 : Bucket(s[m]) # Benign}
           next   == {m \in 1..(n + 1) - 1 : Bucket(s[m]) # Benign}
           more   == [c \in 1..L + 1 |-> IF c = L + 1 THEN n ELSE at[c]]
<1>1. /\ L \in Nat /\ DOMAIN pairs = 1..L /\ DOMAIN longer = 1..L + 1
      /\ longer[L + 1] = pair /\ \A c \in 1..L : longer[c] = pairs[c]
  OBVIOUS
<1>2. 1..(n + 1) - 1 = (1..n - 1) \cup {n}
  OBVIOUS
<1>3. next = need \cup {n} /\ \A m \in need : m \in Nat /\ m < n
  BY <1>2
<1>4. /\ at \in [1..L -> need]
      /\ \A c \in 1..L : pairs[c] = <<s[at[c]], Bucket(s[at[c]])>>
      /\ \A c, d \in 1..L : c < d => at[c] < at[d]
      /\ \A m \in need : \E c \in 1..L : at[c] = m
  BY <1>1 DEF ListsNeeding
<1> HIDE DEF L, longer, need, next
<1>5. /\ \A c \in 1..L : c \in 1..L + 1 /\ more[c] = at[c]
      /\ L + 1 \in 1..L + 1 /\ more[L + 1] = n
      /\ \A c \in 1..L + 1 : c \in 1..L \/ c = L + 1
      /\ DOMAIN more = 1..L + 1 /\ more = [c \in 1..L + 1 |-> more[c]]
  BY <1>1
<1> HIDE DEF more
<1>6. more \in [1..L + 1 -> next]
  <2>1. \A c \in 1..L + 1 : more[c] \in next
    BY <1>3, <1>4, <1>5
  <2> QED
    BY <1>5, <2>1
<1>7. ASSUME NEW c \in 1..L + 1 PROVE longer[c] = <<s[more[c]], Bucket(s[more[c]])>>
  BY <1>1, <1>4, <1>5
<1>8. ASSUME NEW c \in 1..L + 1, NEW d \in 1..L + 1, c < d PROVE more[c] < more[d]
  <2>1. c \in 1..L
    BY <1>1, <1>8
  <2>2. at[c] \in need
    BY <1>4, <2>1
  <2>3. CASE d \in 1..L
    BY <1>4, <1>5, <1>8, <2>1, <2>3
  <2>4. CASE d = L + 1
    BY <1>3, <1>5, <2>1, <2>2, <2>4
  <2> QED
    BY <1>5, <2>3, <2>4
<1>9. \A m \in next : \E c \in 1..L + 1 : more[c] = m
  BY <1>3, <1>4, <1>5
<1>10. DOMAIN longer = 1..L + 1
  BY <1>1
<1>11. ListsNeeding(more, longer, s, n + 1)
  BY <1>6, <1>7, <1>8, <1>9, <1>10 DEF ListsNeeding, next
<1> QED
  BY <1>11 DEF longer

\* When every import has been passed, the pairs are those of the module.
LEMMA AllPassed ==
  ASSUME NEW w, NEW s \in Seq(Import), NEW pairs, NEW atImport, NEW atPair,
         ListsPlaces(atImport, s, w, Places(w)),
         ListsNeeding(atPair, pairs, s, Len(s) + 1)
  PROVE  \E at \in [DOMAIN pairs -> Needing(w)] :
           /\ \A c \in DOMAIN pairs :
                pairs[c] = <<ImportAt(w, at[c]), Bucket(ImportAt(w, at[c]))>>
           /\ \A c, d \in DOMAIN pairs : c < d => Before(at[c], at[d])
           /\ \A p \in Needing(w) : \E c \in DOMAIN pairs : at[c] = p
<1> DEFINE L    == Len(s)
           need == {m \in 1..(L + 1) - 1 : Bucket(s[m]) # Benign}
           at   == [c \in DOMAIN pairs |-> atImport[atPair[c]]]
<1>1. L \in Nat /\ DOMAIN s = 1..L /\ 1..(L + 1) - 1 = 1..L
  OBVIOUS
<1>2. need = {m \in 1..L : Bucket(s[m]) # Benign}
  BY <1>1
<1>3. /\ atImport \in [1..L -> Places(w)]
      /\ \A m \in 1..L : s[m] = ImportAt(w, atImport[m])
      /\ \A c, d \in 1..L : c < d => Before(atImport[c], atImport[d])
      /\ \A p \in Places(w) : \E m \in 1..L : atImport[m] = p
  BY <1>1 DEF ListsPlaces
<1>4. /\ atPair \in [DOMAIN pairs -> need]
      /\ \A c \in DOMAIN pairs : pairs[c] = <<s[atPair[c]], Bucket(s[atPair[c]])>>
      /\ \A c, d \in DOMAIN pairs : c < d => atPair[c] < atPair[d]
      /\ \A m \in need : \E c \in DOMAIN pairs : atPair[c] = m
  BY DEF ListsNeeding
<1>5. \A m \in need : m \in 1..L /\ Bucket(s[m]) # Benign
  BY <1>2
<1> HIDE DEF need, L
<1>6. ASSUME NEW c \in DOMAIN pairs
      PROVE  atPair[c] \in 1..L /\ at[c] = atImport[atPair[c]] /\ at[c] \in Needing(w)
             /\ s[atPair[c]] = ImportAt(w, at[c])
  <2>1. atPair[c] \in need
    BY <1>4
  <2>2. at[c] = atImport[atPair[c]] /\ atPair[c] \in 1..L /\ Bucket(s[atPair[c]]) # Benign
    BY <1>5, <2>1
  <2>3. at[c] \in Places(w) /\ s[atPair[c]] = ImportAt(w, at[c])
    BY <1>3, <2>2
  <2> QED
    BY <2>2, <2>3 DEF Needing
<1>7. at \in [DOMAIN pairs -> Needing(w)]
  BY <1>6
<1> HIDE DEF at
<1>8. \A c \in DOMAIN pairs : pairs[c] = <<ImportAt(w, at[c]), Bucket(ImportAt(w, at[c]))>>
  BY <1>4, <1>6
<1>9. \A c, d \in DOMAIN pairs : c < d => Before(at[c], at[d])
  BY <1>3, <1>4, <1>6
<1>10. ASSUME NEW p \in Needing(w) PROVE \E c \in DOMAIN pairs : at[c] = p
  <2>1. p \in Places(w) /\ Bucket(ImportAt(w, p)) # Benign
    BY DEF Needing
  <2>2. PICK m \in 1..L : atImport[m] = p
    BY <1>3, <2>1
  <2>3. m \in need
    BY <1>2, <1>3, <2>1, <2>2
  <2>4. PICK c \in DOMAIN pairs : atPair[c] = m
    BY <1>4, <2>3
  <2> QED
    BY <1>6, <2>2, <2>4
<1> QED
  BY <1>7, <1>8, <1>9, <1>10

\* Of two entries of a module one comes first.
LEMMA OneComesFirst ==
  ASSUME NEW w \in Seq(Payload), NEW p \in Places(w), NEW q \in Places(w)
  PROVE  ~(Before(p, q) /\ Before(q, p))
<1>1. DOMAIN w = 1..Len(w) /\ \A m \in 1..Len(w) : w[m] \in Payload
  OBVIOUS
<1>2. PICK k \in 1..Len(w) : \E e \in DOMAIN w[k].entries : p = <<k, e>>
  BY <1>1, Zenon DEF Places
<1>3. PICK l \in 1..Len(w) : \E e \in DOMAIN w[l].entries : q = <<l, e>>
  BY <1>1, Zenon DEF Places
<1>4. ASSUME NEW m \in 1..Len(w)
      PROVE  DOMAIN w[m].entries \subseteq Int
  <2>1. w[m] \in Payload
    BY <1>1
  <2>2. CASE w[m] \in [kind : {"imports"}, entries : Seq(Import \cup {BadImport})]
    BY <2>2
  <2>3. CASE w[m].entries = <<>>
    BY <2>3
  <2> QED
    BY <2>1, <2>2, <2>3 DEF Payload, OtherPayload, ParseError
<1>5. p[1] \in Int /\ p[2] \in Int /\ q[1] \in Int /\ q[2] \in Int
  BY <1>2, <1>3, <1>4
<1> QED
  BY <1>5 DEF Before

\* The n-th import of s is the first one of w that g does not cover.
FirstDenied(w, s, n, g) ==
  \E p \in Places(w) :
    /\ s[n] = ImportAt(w, p)
    /\ ~Allowed(ImportAt(w, p), g)
    /\ \A q \in Places(w) : Before(q, p) => Allowed(ImportAt(w, q), g)

\* Where the imports before position n are allowed and the n-th is not, the
\* n-th is the first offending import of the module.
LEMMA FirstOffending ==
  ASSUME NEW w \in Seq(Payload), NEW s \in Seq(Import), NEW at, NEW g,
         NEW n \in 1..Len(s),
         ListsPlaces(at, s, w, Places(w)),
         \A k \in 1..n - 1 : Allowed(s[k], g), ~Allowed(s[n], g)
  PROVE  FirstDenied(w, s, n, g)
<1>1. DOMAIN s = 1..Len(s) /\ Len(s) \in Nat
  OBVIOUS
<1>2. /\ at \in [1..Len(s) -> Places(w)]
      /\ \A m \in 1..Len(s) : s[m] = ImportAt(w, at[m])
      /\ \A c, d \in 1..Len(s) : c < d => Before(at[c], at[d])
      /\ \A p \in Places(w) : \E m \in 1..Len(s) : at[m] = p
  BY <1>1 DEF ListsPlaces
<1>3. at[n] \in Places(w) /\ s[n] = ImportAt(w, at[n])
  BY <1>2
<1>4. ASSUME NEW q \in Places(w), Before(q, at[n])
      PROVE  Allowed(ImportAt(w, q), g)
  <2>1. PICK m \in 1..Len(s) : at[m] = q
    BY <1>2
  <2>2. ~Before(at[n], at[m])
    BY <1>3, <1>4, <2>1, OneComesFirst
  <2>3. m <= n
    BY <1>2, <2>2
  <2>4. m # n
    BY <1>4, <2>1, <2>2
  <2>5. m \in 1..n - 1
    BY <2>3, <2>4
  <2> QED
    BY <1>2, <2>1, <2>5
<1> QED
  BY <1>3, <1>4 DEF FirstDenied

LEMMA OrderInit == Init => OrderInv
<1> SUFFICES ASSUME Init PROVE OrderInv
  OBVIOUS
<1>1. pc = "extract" /\ result = "none" /\ i = 1 /\ imports = <<>> /\ checked = <<>>
  BY DEF Init
<1>2. 1..i - 1 = {} /\ DOMAIN imports = {}
  BY <1>1
<1>3. PlacesUpTo(wasm, i - 1) = {}
  BY <1>2, PlaceUpTo
<1>4. ListsPlaces(<<>>, imports, wasm, PlacesUpTo(wasm, i - 1))
  BY <1>1, <1>2, <1>3 DEF ListsPlaces
<1> QED
  BY <1>1, <1>4 DEF OrderInv, CheckedInOrder, FirstViolationReported

LEMMA OrderStep == TypeOK /\ LoopInv /\ OrderInv /\ [Next]_vars => OrderInv'
<1> SUFFICES ASSUME TypeOK, LoopInv, OrderInv, [Next]_vars PROVE OrderInv'
  OBVIOUS
<1> USE DEF CheckedInOrder, FirstViolationReported
<1>t. /\ wasm \in Seq(Payload) /\ DOMAIN wasm = 1..Len(wasm) /\ i \in 1..Len(wasm) + 1
      /\ imports \in Seq(Import) /\ j \in 1..Len(imports) + 1 /\ Len(imports) \in Nat
      /\ checked \in Seq(Import \X Capability)
  BY DEF TypeOK
<1>n. pc # "done" => result = "none"
  BY DEF LoopInv
<1>1. CASE ReadPayload
  <2>1. wasm[i] \in Payload /\ wasm[i].entries \in Seq(Import)
    BY <1>1, <1>t, SoundPayload DEF ReadPayload
  <2>2. i - 1 \in Nat /\ (i - 1) + 1 = i /\ i' - 1 = i
    BY <1>1, <1>t DEF ReadPayload
  <2>3. PICK at : ListsPlaces(at, imports, wasm, PlacesUpTo(wasm, i - 1))
    BY <1>1 DEF ReadPayload, OrderInv
  <2>4. \E more : ListsPlaces(more, imports \o wasm[i].entries, wasm, PlacesUpTo(wasm, i))
    BY <1>t, <2>1, <2>2, <2>3, OneMoreSection
  <2>5. pc' = "extract" /\ result' = "none" /\ checked' = <<>> /\ wasm' = wasm
        /\ imports' = imports \o wasm[i].entries
    BY <1>1, <1>n DEF ReadPayload, OrderInv, Collected
  <2> QED
    BY <2>2, <2>4, <2>5 DEF OrderInv
<1>2. CASE RejectPayload
  BY <1>2 DEF RejectPayload, Return, OrderInv
<1>3. CASE EndOfModule
  <2>1. i - 1 = Len(wasm) /\ j = 1 /\ checked = <<>> /\ result = "none"
    BY <1>3, <1>n, <1>t DEF EndOfModule, LoopInv, OrderInv
  <2>2. PlacesUpTo(wasm, Len(wasm)) = Places(wasm)
    BY <1>t DEF Places, PlacesUpTo
  <2>3. \E at : ListsPlaces(at, imports, wasm, Places(wasm))
    BY <1>3, <2>1, <2>2 DEF EndOfModule, OrderInv
  <2>4. 1..j - 1 = {} /\ DOMAIN checked = {}
    BY <2>1
  <2>5. {m \in 1..j - 1 : Bucket(imports[m]) # Benign} = {}
    BY <2>4
  <2>6. ListsNeeding(<<>>, checked, imports, j)
    BY <2>1, <2>4, <2>5 DEF ListsNeeding
  <2> QED
    BY <1>3, <2>1, <2>3, <2>6 DEF EndOfModule, OrderInv
<1>4. CASE SkipBenign
  <2>1. PICK at : ListsNeeding(at, checked, imports, j)
    BY <1>4 DEF SkipBenign, OrderInv
  <2>2. j \in Nat \ {0} /\ Bucket(imports[j]) = Benign
    BY <1>4, <1>t DEF SkipBenign
  <2>3. ListsNeeding(at, checked, imports, j + 1)
    BY <2>1, <2>2, PassedBenign
  <2> QED
    BY <1>4, <1>n, <2>3 DEF SkipBenign, OrderInv
<1>5. CASE AcceptImport
  <2>1. PICK at : ListsNeeding(at, checked, imports, j)
    BY <1>5 DEF AcceptImport, OrderInv
  <2>2. j \in Nat \ {0} /\ Bucket(imports[j]) # Benign
    BY <1>5, <1>t DEF AcceptImport
  <2>3. <<imports[j], Bucket(imports[j])>> \in Import \X Capability
    <3>1. imports[j] \in Import
      BY <1>5, <1>t DEF AcceptImport
    <3>2. Bucket(imports[j]) \in Capability
      BY <1>5 DEF AcceptImport, has_capability
    <3> QED
      BY <3>1, <3>2
  <2>4. \E more : ListsNeeding(more, Append(checked, <<imports[j], Bucket(imports[j])>>),
                               imports, j + 1)
    BY <1>t, <2>1, <2>2, <2>3, PassedNeeding
  <2> QED
    BY <1>5, <1>n, <2>4 DEF AcceptImport, Listed, OrderInv
<1>6. CASE RejectImport
  <2>1. PICK at : ListsPlaces(at, imports, wasm, Places(wasm))
    BY <1>6 DEF RejectImport, OrderInv
  <2>2. /\ j \in 1..Len(imports) /\ ~Allowed(imports[j], granted)
        /\ \A k \in 1..j - 1 : Allowed(imports[k], granted)
    BY <1>6, <1>t DEF RejectImport, LoopInv, Bucket, Allowed
  <2>3. FirstViolationReported'
    <3>1. wasm' = wasm /\ imports' = imports /\ j' = j /\ granted' = granted
      BY <1>6 DEF RejectImport
    <3>2. FirstDenied(wasm, imports, j, granted)
      BY <1>t, <2>1, <2>2, FirstOffending
    <3> QED
      BY <3>1, <3>2 DEF FirstDenied
  <2> QED
    BY <1>6, <2>3 DEF RejectImport, Return, OrderInv
<1>7. CASE Finish
  <2>1. j = Len(imports) + 1
    BY <1>7, <1>t DEF Finish
  <2>2. PICK atImport : ListsPlaces(atImport, imports, wasm, Places(wasm))
    BY <1>7 DEF Finish, OrderInv
  <2>3. PICK atPair : ListsNeeding(atPair, checked, imports, Len(imports) + 1)
    BY <1>7, <2>1 DEF Finish, OrderInv
  <2>4. CheckedInOrder'
    <3>1. wasm' = wasm /\ checked' = checked
      BY <1>7 DEF Finish
    <3> QED
      BY <1>t, <2>2, <2>3, <3>1, AllPassed
  <2> QED
    BY <1>7, <2>4 DEF Finish, Return, OrderInv
<1>8. CASE UNCHANGED vars
  BY <1>8 DEF vars, OrderInv
<1> QED
  BY <1>1, <1>2, <1>3, <1>4, <1>5, <1>6, <1>7, <1>8 DEF Next, Terminated

LEMMA OrderInvariant == Spec => []OrderInv
BY OrderInit, OrderStep, LoopInvariant, PTL DEF Spec

\* A denial names the first import the module declares that the grant does not
\* cover, however the imports are spread over sections (enforcer.rs:104-115).
THEOREM FirstViolationIsReported == Spec => []FirstViolationReported
<1>1. OrderInv => FirstViolationReported
  BY DEF OrderInv
<1> QED
  BY <1>1, OrderInvariant, PTL

\* The pairs returned on success are the imports that need a bucket, each once
\* and in the order the module declares them, however the imports are spread
\* over sections (enforcer.rs:85-118).
THEOREM PairsInOrder == Spec => []CheckedInOrder
<1>1. OrderInv => CheckedInOrder
  BY DEF OrderInv
<1> QED
  BY <1>1, OrderInvariant, PTL

-----------------------------------------------------------------------------
(* The HAL interfaces *)

\* The bucket of an interface of the HAL, under a known name, is the interface.
LEMMA HalBucket ==
  ASSUME NEW imp,
         \/ imp.module.ns = "elastic:hal"
         \/ imp.module.ns = "bare" /\ imp.module.iface \in BareNames
  PROVE  import_to_capability(imp) = imp.module.iface
<1>1. /\ imp.module.ns # "preview1" /\ imp.module.ns # "wasi_crypto"
      /\ imp.module.ns # "wasi_sockets"
  OBVIOUS
<1> QED
  BY <1>1 DEF import_to_capability

\* Of EveryHalImportGranted, which the code does not keep, this is left: every
\* HAL interface imported under a name the table knows was granted to an
\* admitted workload, however its imports are spread (enforcer.rs:52-75, 93).
THEOREM HalImportsGranted == Spec => []KnownHalImportsGranted
<1>1. TypeOK /\ VerdictCorrect /\ LoopInv => KnownHalImportsGranted
  <2> SUFFICES ASSUME TypeOK, VerdictCorrect, LoopInv, result = "ok",
                      NEW imp \in Imports(wasm),
                      \/ imp.module.ns = "elastic:hal"
                      \/ imp.module.ns = "bare" /\ imp.module.iface \in BareNames
               PROVE  imp.module.iface \in list_granted(granted)
    BY DEF KnownHalImportsGranted
  <2>1. check_workload(wasm, granted) = "ok"
    <3>1. pc = "done"
      BY DEF LoopInv
    <3> QED
      BY <3>1 DEF VerdictCorrect
  <2>2. ~Malformed(wasm) /\ Allowed(imp, granted)
    BY <2>1 DEF check_workload
  <2>3. import_to_capability(imp) = imp.module.iface
    BY HalBucket
  <2>4. imp.module.iface \in Capability
    <3>1. wasm \in Seq(Payload)
      BY DEF TypeOK
    <3>2. PICK k \in DOMAIN wasm : \E e \in DOMAIN wasm[k].entries : imp = wasm[k].entries[e]
      BY Zenon DEF Imports
    <3>3. wasm[k].entries \in Seq(Import)
      BY <2>2, <3>1, SoundPayload DEF Malformed
    <3>4. imp \in Import
      BY <3>2, <3>3
    <3> QED
      BY <3>4 DEF Import, ModuleName, HalModule, OtherModule
  <2>5. Benign \notin Capability
    BY DEF Benign, Capability
  <2> QED
    BY <2>2, <2>3, <2>4, <2>5 DEF Allowed, has_capability, list_granted
<1> QED
  BY <1>1, LoopInvariant, VerdictIsCorrect, PTL

=============================================================================
