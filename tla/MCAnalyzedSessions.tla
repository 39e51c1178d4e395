------------------------- MODULE MCAnalyzedSessions -------------------------
(***************************************************************************)
(* AnalyzedSessions with a manual entity and two auto entities whose       *)
(* models differ, a workload with imports in two sections and one with an  *)
(* import that cannot be read, and one reply of each kind the code tells   *)
(* apart.  The second policy makes an auto entity manual.                  *)
(***************************************************************************)
EXTENDS MCSessions, AnalyzedSessions, TLC

CONSTANTS other_auto, deepseek

MCAnalyzedEntityId == {manual_entity, auto_entity, other_auto}
MCAnalyzedModel    == {gpt, deepseek}

TwoModels ==
  [strict_mode |-> TRUE,
   entities |-> {Of(auto_entity, AutoMode(gpt), {"clock"}),
                 Of(other_auto, AutoMode(deepseek), {})}]

OneModel ==
  [strict_mode |-> TRUE,
   entities |-> {Of(auto_entity, AutoMode(deepseek), {}),
                 Of(manual_entity, ManualMode, {"storage"})}]

MCAnalyzedPolicies == {TwoModels, OneModel}

UnreadableWorkload == <<ImportSection(<<ImportOf("preview1", "any", "file"), BadImport>>)>>

MCAnalyzedWasm == {FileWorkload, CryptoWorkload, UnreadableWorkload}

\* Missing keys, a key that is no capability, a value that is no boolean: read
\* with less care Undecided would let the crypto workload run.
Little    == "crypto" :> "true" @@ "gpu" :> "true" @@ "clock" :> "false" @@ "filesystem" :> "true"
Plenty    == [c \in Capability |-> "true"]
Undecided == "crypto" :> "true" @@ "gpu" :> "true" @@ "clock" :> "other"

MCReplies ==
  {Lost, ErrorReply, Garbled, Chat(<<>>), Chat(<<Little, Plenty>>), Chat(<<Plenty, Little>>),
   Chat(<<Undecided>>), Chat(<<NotAnObject>>)}

MCAnalyzedVerdicts == {all, Flags({"crypto", "gpu"})}

\* For MCPostedBytes: the same imports, around different code.
OtherCode == Append(FileWorkload, OtherPayload)

MCPostedWasm == {FileWorkload, OtherCode}

=============================================================================
