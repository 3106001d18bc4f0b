------------------------------- MODULE MCReads ------------------------------
(* What is read: one policy, a policy without its duplicates, the           *)
(* posture of one device, one list of the API page by page, or one gather of *)
(* calls to Tailscale.                                                       *)
EXTENDS MCPolicyEvaluation, KeysetPages, TailscaleClient

\* 3 stands for a name that casefold() turns into another one.
MCFold == 0 :> 0 @@ 1 :> 1 @@ 2 :> 2 @@ 3 :> 1

NoList ==
    /\ list = flows /\ table = <<>> /\ changes = 0 /\ cursor = NoCursor /\ pages = "done"
    /\ shown = {} /\ again = {} /\ whole = {} /\ left = {} /\ names = {}

NoPolicy == input = NoResult /\ result = NoResult
NoDocument == document = NoReview /\ review = NoReview
NoSubject == subject = NoPayload /\ payload = NoPayload

NoCall ==
    /\ step = 0 /\ token = Absent /\ until = 0 /\ call = [c \in Call |-> Starting]
    /\ gathered = "raised" /\ closed = TRUE /\ revoked = TRUE /\ stale = FALSE

\* The parts are independent: one of them runs, the others are at rest.
VARIABLE part
readVars == <<part, policyVars, duplicateVars, postureVars, pageVars, clientVars>>

ReadsInit ==
    \/ part = "policy" /\ PolicyInit /\ NoDocument /\ NoSubject /\ NoList /\ NoCall
    \/ part = "duplicates" /\ NoPolicy /\ DuplicatesInit /\ NoSubject /\ NoList /\ NoCall
    \/ part = "posture" /\ NoPolicy /\ NoDocument /\ PostureInit /\ NoList /\ NoCall
    \/ part = "pages" /\ NoPolicy /\ NoDocument /\ NoSubject /\ PagesInit /\ NoCall
    \/ part = "client" /\ NoPolicy /\ NoDocument /\ NoSubject /\ NoList /\ ClientInit

ReadsNext ==
    /\ UNCHANGED part
    /\ \/ /\ part = "policy" /\ ReadPolicy
          /\ UNCHANGED <<duplicateVars, postureVars, pageVars, clientVars>>
       \/ /\ part = "duplicates" /\ ReadDuplicates
          /\ UNCHANGED <<policyVars, postureVars, pageVars, clientVars>>
       \/ /\ part = "posture" /\ ReadPosture
          /\ UNCHANGED <<policyVars, duplicateVars, pageVars, clientVars>>
       \/ /\ part = "pages" /\ PagesNext
          /\ UNCHANGED <<policyVars, duplicateVars, postureVars, clientVars>>
       \/ /\ part = "client" /\ ClientNext
          /\ UNCHANGED <<policyVars, duplicateVars, postureVars, pageVars>>

ReadsSpec == ReadsInit /\ [][ReadsNext]_readVars
=============================================================================
