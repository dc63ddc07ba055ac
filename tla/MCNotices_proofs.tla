---------------------------- MODULE MCNotices_proofs ----------------------------
(***************************************************************************)
(* The three documents side by side: a step of the composition is, for     *)
(* each document, a step of its own module or leaves it alone, so the      *)
(* invariants of the documents hold together.                              *)
(***************************************************************************)
EXTENDS MCNotices, Notices_proofs

\* The strengthened types of the three documents.
AllTyped == NoticeTypeInv /\ ApprovalTypeInv /\ MiTypeInv

\* A step of the composition moves one document as its module says and leaves
\* the other two alone.
LEMMA OneDocument ==
    [McNext]_allVars => /\ [NoticeNext]_noticeVars
                        /\ [ApprovalNext]_approvalVars
                        /\ [MiNext]_miVars
  <1> SUFFICES ASSUME [McNext]_allVars
               PROVE  /\ [NoticeNext]_noticeVars
                      /\ [ApprovalNext]_approvalVars
                      /\ [MiNext]_miVars
    OBVIOUS
  <1>1. CASE UNCHANGED <<approvalVars, miVars>> /\ (AskingTwice \/ NoticeNext)
    BY <1>1 DEF AskingTwice, NoticeNext
  <1>2. CASE scenario = "approval" /\ ApprovalNext /\ UNCHANGED <<noticeVars, miVars>>
    BY <1>2
  <1>3. CASE scenario = "question" /\ MiNext /\ UNCHANGED <<noticeVars, approvalVars>>
    BY <1>3
  <1>4. CASE UNCHANGED allVars
    BY <1>4 DEF allVars
  <1> QED BY <1>1, <1>2, <1>3, <1>4 DEF McNext

\* The documents start typed, whichever of them the behaviour moves.
LEMMA AllTypedInit == McInit => AllTyped
  BY NoticeInitType, ApprovalInitType, MiInitType DEF McInit, AllTyped

\* Every step of the composition keeps the three documents typed.
LEMMA AllTypedNext == AllTyped /\ [McNext]_allVars => AllTyped'
  BY OneDocument, NoticeNextType, ApprovalNextType, MiNextType DEF AllTyped

\* Every variable of the availability request, the booking and the question
\* keeps its type while their handlers run side by side.
THEOREM NoticesTyped == McSpec => []TypesOK
  <1>1. AllTyped => TypesOK
    BY NoticeTypeInvGives, ApprovalTypeInvGives, MiTypeInvGives DEF AllTyped, TypesOK
  <1> QED BY <1>1, AllTypedInit, AllTypedNext, PTL DEF McSpec
=============================================================================
