------------------------------ MODULE ChatPage ------------------------------
(***************************************************************************)
(* WorkspaceChat.vue: the chat of an application.  A message is reviewed   *)
(* before it is sent; the answer is added to the messages.                 *)
(***************************************************************************)
EXTENDS TaskView

ChatPageInit == TaskViewInit("chat")

\* Another application.
LeaveChat(c) == SwitchTo(c)

\* load shows the messages of one conversation, the last of the list: what the
\* application's other conversations hold is not shown.
ChatLoaded(t) == \E some \in SUBSET Known : Loaded(t, some)

\* The buttons of the form and of the dialog that are enabled.
ChatForm == IF ready /\ ~reviewing /\ ~running THEN {"review"} ELSE {}
ChatDialog == IF reviewed = "none" THEN {} ELSE {"cancel"} \cup (IF running THEN {} ELSE {"send"})

ReviewMessage == "review" \in ChatForm /\ Review
CancelMessage == "cancel" \in ChatDialog /\ CloseReview
SendMessage(j) == "send" \in ChatDialog /\ Send(j, "confirming", shown)

\* applyTaskResult: the turn is shown and the dialog closes.
TaskApplied(t) ==
  /\ Monitored(t, TRUE) /\ Mine(t)
  /\ shown' = shown \cup {t.task} /\ reviewed' = "none"
  /\ Finish(t)
  /\ UNCHANGED <<view, ctx, ready, aside, reviewing, task, calm>>

ChatPageNext ==
  /\ view = "chat"
  /\ \/ TaskViewStep
     \/ \E c \in Contexts : LeaveChat(c)
     \/ ReviewMessage \/ CancelMessage
     \/ \E j \in Tasks : SendMessage(j)
     \/ \E t \in Threads :
          \/ ChatLoaded(t) \/ LoadFails(t) \/ Reviewed(t) \/ Confirmed(t) \/ TaskApplied(t)
          \/ ~Mine(t) /\ Dropped(t, TRUE)
=============================================================================
