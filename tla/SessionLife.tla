----------------------------- MODULE SessionLife ----------------------------
(***************************************************************************)
(* What SshSession promises the UI about one worker after another, as      *)
(* session.h describes it: a started session asks about the host key at    *)
(* most once, reports Connected at most once, then its end exactly once,   *)
(* through a queue the UI takes from when it likes; Running() becomes      *)
(* false only after the end was reported; and a new start forgets what an  *)
(* earlier worker reported.  SshSession is checked to implement Spec, and  *)
(* GuardedSession is built on the actions.                                 *)
(***************************************************************************)
EXTENDS Sequences

CONSTANTS Classes,    \* how the text of an end is classified; opaque here
          Refusal     \* the class of an end for want of a trusted host key

VARIABLES phase,      \* the worker: "stopped", "starting", "asked" about the host
                      \* key and then told "accepted" or "refused", "up", or
                      \* "over": its end is reported, it has not returned yet
          reports     \* m_events: what the UI has not taken yet

life == <<phase, reports>>

Prompt    == [kind |-> "HostKeyPrompt"]
Connected == [kind |-> "Connected"]
Ends      == [kind : {"Closed", "Error"}, class : Classes]
Reports   == {Prompt, Connected} \cup Ends

Live   == {"starting", "asked", "accepted", "refused", "up"}
TypeOK == /\ phase \in Live \cup {"stopped", "over"}
          /\ reports \in Seq(Reports)

Init == phase = "stopped" /\ reports = <<>>

\* A start: only once the worker before has stopped.
Begin == /\ phase = "stopped"
         /\ phase' = "starting" /\ reports' = <<>>

\* A Disconnect under way has refused before the question is put.
Ask == /\ phase = "starting"
       /\ phase' \in {"asked", "refused"} /\ reports' = Append(reports, Prompt)

\* AnswerHostKey: heard by the worker that asked, if it still waits.
Answer(yes) ==
  /\ phase' = IF phase # "asked" THEN phase ELSE IF yes THEN "accepted" ELSE "refused"
  /\ UNCHANGED reports

\* Without an answer the key was known; with one it was accepted.
Establish == /\ phase \in {"starting", "accepted"}
             /\ phase' = "up" /\ reports' = Append(reports, Connected)

\* Error before the session is up, Closed after; a worker that asked waits.
EndOf(class) == [kind |-> IF phase = "up" THEN "Closed" ELSE "Error", class |-> class]
EndsNow == {EndOf(class) : class \in IF phase \in {"asked", "refused"}
                                     THEN {Refusal} ELSE Classes}

SilentEnd == phase \in Live \ {"asked"} /\ phase' = "over" /\ UNCHANGED reports  \* (faulty)
End == /\ phase \in Live \ {"asked"} /\ phase' = "over"
       /\ \E end \in EndsNow : reports' = Append(reports, end)

Finish == phase = "over" /\ phase' = "stopped" /\ UNCHANGED reports

\* Disconnect as its caller sees it: the worker has stopped, and an end not yet
\* reported is.
Halt ==
  /\ phase' = "stopped"
  /\ IF phase \in Live
     THEN \E end \in EndsNow : reports' = Append(reports, end)
     ELSE UNCHANGED reports

\* PollEvent.
Take == /\ reports # <<>>
        /\ reports' = Tail(reports) /\ UNCHANGED phase

Worker == Ask \/ Establish \/ End \/ Finish
Next   == Begin \/ (\E yes \in BOOLEAN : Answer(yes)) \/ Worker \/ Take
Spec   == Init /\ [][Next]_life
=============================================================================
