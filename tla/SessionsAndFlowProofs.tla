------------------------ MODULE SessionsAndFlowProofs ------------------------
(***************************************************************************)
(* Proofs about the parts of MCSessionsAndFlow in one behaviour: the       *)
(* emailed link, a session in Workers KV and the joining flow.  A step of  *)
(* one part leaves the variables of the others as they are, so a behaviour *)
(* of the composition is one of each part, and what is proved of a part in *)
(* LinkChallengeProofs, KvSessionsProofs and JoiningFlowProofs holds there *)
(* for every value of the constants.                                       *)
(***************************************************************************)
EXTENDS MCSessionsAndFlow, LinkChallengeProofs, KvSessionsProofs, JoiningFlowProofs, TLAPS

\* MCSessionsAndFlow: whichever part moves, every part behaves as its own
\* specification says, so the theorems about the parts hold in the composition.
THEOREM PartsBehave == MCSpec => Spec /\ KvSpec /\ FlowSpec
<1> DEFINE MCNext == LinkMoves \/ KvMoves \/ FlowMoves
           mcVars == <<part, linkVars, kvVars, flowVars>>
<1>1. MCInit => Init /\ KvInit /\ FlowInit
  BY DEF MCInit
<1>2. [MCNext]_mcVars => [Next]_linkVars /\ [KvNext]_kvVars /\ [FlowNext]_flowVars
  BY DEF LinkMoves, KvMoves, FlowMoves
<1> QED BY <1>1, <1>2, PTL DEF MCSpec, Spec, KvSpec, FlowSpec

\* MCSessionsAndFlow: every variable of every part keeps its type.
THEOREM PartsTypeCorrect == MCSpec => []PartsTypeOK
<1>1. TypeOK /\ KvTypeOK /\ FlowTypeOK => PartsTypeOK
  BY DEF PartsTypeOK
<1> QED BY <1>1, PartsBehave, TypeCorrect, KvTypeCorrect, FlowTypeCorrect, PTL

=============================================================================
