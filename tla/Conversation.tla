---------------------------- MODULE Conversation ----------------------------
(***************************************************************************)
(* What a session promises the people who talk in it: one message at a     *)
(* time holds the conversation, the others wait in line, and a message     *)
(* that was accepted is spoken once or withdrawn, never both.              *)
(*                                                                         *)
(* A newcomer joins the line only while somebody speaks.  In a pause he    *)
(* speaks at once, before the line: the promise does not rule it out.      *)
(***************************************************************************)
EXTENDS Naturals, Sequences

CONSTANTS
  Msgs,
  NoMsg,
  Drop(_, _),     \* a line without one of its messages
  Front(_, _)     \* a line with one of its messages moved to the front

VARIABLES
  line,       \* the messages that wait
  speaker,    \* the message that holds the conversation, or NoMsg
  spoken,     \* messages that were spoken to the end
  withdrawn   \* messages taken out of the line

vars == <<line, speaker, spoken, withdrawn>>

Waits(m) == \E i \in 1..Len(line) : line[i] = m
Unknown(m) == ~Waits(m) /\ m # speaker /\ m \notin spoken \cup withdrawn

Init == line = <<>> /\ speaker = NoMsg /\ spoken = {} /\ withdrawn = {}

Join(m) ==
  /\ Unknown(m) /\ speaker # NoMsg
  /\ line' = Append(line, m)
  /\ UNCHANGED <<speaker, spoken, withdrawn>>

SpeakAtOnce(m) ==
  /\ Unknown(m) /\ speaker = NoMsg
  /\ speaker' = m
  /\ UNCHANGED <<line, spoken, withdrawn>>

SpeakNext ==
  /\ speaker = NoMsg /\ line # <<>>
  /\ speaker' = Head(line) /\ line' = Tail(line)
  /\ UNCHANGED <<spoken, withdrawn>>

Finish ==
  /\ speaker # NoMsg
  /\ spoken' = spoken \cup {speaker} /\ speaker' = NoMsg
  /\ UNCHANGED <<line, withdrawn>>

Withdraw(m) ==
  /\ Waits(m)
  /\ line' = Drop(line, m) /\ withdrawn' = withdrawn \cup {m}
  /\ UNCHANGED <<speaker, spoken>>

PutFirst(m) ==
  /\ Waits(m)
  /\ line' = Front(line, m)
  /\ UNCHANGED <<speaker, spoken, withdrawn>>

Next ==
  \/ \E m \in Msgs : Join(m) \/ SpeakAtOnce(m) \/ Withdraw(m) \/ PutFirst(m)
  \/ SpeakNext \/ Finish

Spec == Init /\ [][Next]_vars
=============================================================================
