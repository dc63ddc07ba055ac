------------------------------- MODULE MCNotices -------------------------------
(***************************************************************************)
(* Three documents that wait for an answer of the owner, checked in one    *)
(* run.  They share no state, so a behaviour runs one of them, and the     *)
(* other two stay in their initial states: the states of the three add up  *)
(* instead of multiplying.                                                 *)
(***************************************************************************)
EXTENDS AvailabilityNotice, BookingApproval, MissingInfo

CONSTANTS w, t, r1, r2, a, b, t1, t2, o1, o2, c1

VARIABLE scenario   \* the document of this behaviour

allVars == <<noticeVars, approvalVars, miVars, scenario>>

McProcesses == {w, t}
McRuns == {r1, r2}
McTaps == {a, b}
McTurns == {t1, t2}
McOwnerMsgs == {o1, o2}
McCustMsgs == {c1}

\* The document of an availability request is taken twice: in "prompt" the runs
\* of the turn ask the owner, in "notice" one run does, and the pollers and the
\* lookup go on from there.  Each half writes fields the other does not read;
\* they share the decision, which needs one prompt, and the server's stops.
McInit ==
    /\ scenario \in {"prompt", "notice", "approval", "question"}
    /\ NoticeInit /\ ApprovalInit /\ MiInit
    /\ scenario # "notice" => avr.phone = "pending" /\ ~avr.trusted
    /\ scenario # "approval" => bkg.anchored

AskingTwice == NoticeServerStop \/ \E r \in Runs : PromptStep(r)

AskedOnce ==
    \A r \in Runs : prompter'[r] # prompter[r] =>
       /\ refusals' = refusals
       /\ prompter'[r] = "idle" \/ (r = r1 /\ avr.status = "pending")

McNext ==
    /\ UNCHANGED scenario
    /\ \/ scenario = "prompt" /\ AskingTwice /\ UNCHANGED <<approvalVars, miVars>>
       \/ scenario = "notice" /\ NoticeNext /\ AskedOnce /\ UNCHANGED <<approvalVars, miVars>>
       \/ scenario = "approval" /\ ApprovalNext /\ UNCHANGED <<noticeVars, miVars>>
       \/ scenario = "question" /\ MiNext /\ UNCHANGED <<noticeVars, approvalVars>>

\* The fairness of two of the modules, for the behaviours that run them: a
\* document that does not move excludes none.
McFairness ==
    /\ \A p \in Processes : WF_noticeVars(scenario = "notice" /\ Telling(p))
    /\ WF_noticeVars(scenario = "notice" /\ LookingUp)
    /\ \A tap \in Taps : WF_approvalVars(scenario = "approval" /\ ClerkStep(tap))
    /\ WF_approvalVars(scenario = "approval" /\ Couriering)

McSpec == McInit /\ [][McNext]_allVars /\ McFairness

\* Every variable of the three documents keeps its type.
TypesOK == NoticeTypeOK /\ ApprovalTypeOK /\ MiTypeOK
=============================================================================
