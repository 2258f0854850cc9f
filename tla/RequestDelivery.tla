--------------------------- MODULE RequestDelivery --------------------------
(***************************************************************************)
(* How a chat message reaches the server once although its frame, its      *)
(* answer, the connection or the server may be lost.                       *)
(*                                                                         *)
(* Client: a message gets a request id; its frame stays in pendingMessages *)
(* (`outbox') until an answer to that id arrives and is sent again on      *)
(* every new connection.  A first message has no session yet: the composer *)
(* is bound to a draft ("pending-...") until session.accepted brings the   *)
(* key, and a draft whose answer is missing is replayed on connect         *)
(* (pendingDraftRecovery.ts).  Server: one goroutine per frame; a table by *)
(* request id, in memory only, makes the second frame of a request answer  *)
(* with the first one's key instead of running the message again.          *)
(*                                                                         *)
(* A key is the request that created the session and the life of the      *)
(* server in which it did.  A frame carries the message as it was composed *)
(* ("full": with plan prefix, view context and worktree wish) or the text  *)
(* alone ("bare").  Submitting at the client is one step: the wait for the *)
(* plugin catalogue in plugin mode is not modelled.  The goroutine of a    *)
(* first frame takes one step for each thing another one, the client or a  *)
(* restart can come before: it sets the session up, records its key,       *)
(* answers, and only then hands the message over.                          *)
(***************************************************************************)
EXTENDS Naturals, Sequences, FiniteSets

CONSTANTS Req,            \* request ids, one per message the user sends
          NoKey,          \* the empty session key
          MaxEpoch,       \* bound: connections the client opens
          MaxRestarts,    \* bound: restarts of the server
          MaxRecovery     \* MAX_RECOVERY_ATTEMPTS of the code (3)

ASSUME BoundsAssumption ==
  MaxEpoch \in Nat /\ MaxRestarts \in Nat /\ MaxRecovery \in Nat

Life == 0..MaxRestarts
Key == Req \X Life
TempKey(r) == <<r, NoKey>>      \* the draft of r: a key the client made up

VARIABLES
  open, epoch,      \* the client's socket, and how many it has opened
  frames,           \* session.message frames between client and server
  answers,          \* session.accepted and session.error under way
  life,             \* how often the server was restarted
  requests,         \* the server's table: what a request id resolved to
  handlers,         \* handleSessionMessage goroutines
  created,          \* the sessions a request created and kept, by life
  turns,            \* what was handed to submitSessionMessage, by life
  outbox,           \* pendingMessages: the unanswered frame of a request
  awaiting,         \* pendingRequestRef: is r unanswered, and is it a draft
  attempts,         \* replays of a draft so far
  bound,            \* what the composer continues: NoKey, a draft or a key
  promoted          \* the key a draft was promoted to

client == <<outbox, awaiting, attempts, bound, promoted>>
server == <<life, requests, handlers, created, turns>>
vars == <<open, epoch, frames, answers, client, server>>

Bodies == [key : Key \cup {NoKey}, form : {"full", "bare"}]
Frames == [req : Req, body : Bodies, epoch : 0..MaxEpoch,
           via : {"submit", "recover", "resend"}]
Answers == [req : Req, kind : {"accepted", "error"}, key : Key \cup {NoKey}]

(* A first frame has reserved its id, created its session, recorded its    *)
(* key, answered; a repeat has only its answer to give.                    *)
Stages == {"first", "ready", "recorded", "answered", "repeat"}
Handlers == [frame : Frames, stage : Stages]

TypeOK ==
  /\ open \in BOOLEAN /\ epoch \in 0..MaxEpoch /\ life \in Life
  /\ frames \subseteq Frames /\ answers \subseteq Answers
  /\ requests \in [Req -> [seen : BOOLEAN, key : Key \cup {NoKey}]]
  /\ handlers \subseteq Handlers
  /\ created \in [Key -> Nat]
  /\ turns \in [Key -> Seq(Bodies)]
  /\ outbox \in [Req -> SUBSET Bodies]
  /\ awaiting \in [Req -> {"unsent", "draft", "keyed", "over"}]
  /\ attempts \in [Req -> 0..MaxRecovery]
  /\ bound \in Key \cup {NoKey} \cup {TempKey(r) : r \in Req}
  /\ promoted \in [Req -> Key \cup {NoKey}]

Unreserved == [r \in Req |-> [seen |-> FALSE, key |-> NoKey]]

Init ==
  /\ open = FALSE /\ epoch = 0 /\ frames = {} /\ answers = {}
  /\ life = 0 /\ requests = Unreserved /\ handlers = {}
  /\ created = [k \in Key |-> 0] /\ turns = [k \in Key |-> <<>>]
  /\ outbox = [r \in Req |-> {}] /\ awaiting = [r \in Req |-> "unsent"]
  /\ attempts = [r \in Req |-> 0]
  /\ bound = NoKey /\ promoted = [r \in Req |-> NoKey]

-----------------------------------------------------------------------------
(* The user (useSendMessage.ts, prepareSendMessageTarget.ts).              *)

(* While the composer is bound to a draft it sends nothing.                *)
Blocked == \E r \in Req : bound = TempKey(r)

(* The socket is open: the frame is noted and sent, and a message without  *)
(* a session becomes the draft the composer is bound to.                   *)
Submit(r) ==
  /\ open /\ ~Blocked /\ awaiting[r] = "unsent"
  /\ LET body == [key |-> bound, form |-> "full"]
     IN  /\ outbox' = [outbox EXCEPT ![r] = {body}]
         /\ frames' = frames \cup {[req |-> r, body |-> body, epoch |-> epoch,
                                    via |-> "submit"]}
  /\ awaiting' = [awaiting EXCEPT ![r] = IF bound = NoKey THEN "draft" ELSE "keyed"]
  /\ bound' = IF bound = NoKey THEN TempKey(r) ELSE bound
  /\ UNCHANGED <<open, epoch, answers, server, attempts, promoted>>

(* The socket is closed: sendMessage returns false before it notes         *)
(* anything, and what the composer had set up for the message is undone.   *)
SubmitRefused(r) ==
  /\ ~open /\ ~Blocked /\ awaiting[r] = "unsent"
  /\ awaiting' = [awaiting EXCEPT ![r] = "over"]
  /\ UNCHANGED <<open, epoch, frames, answers, server, outbox, attempts, bound, promoted>>

(* The user opens a session, or an empty composer.                         *)
Rebind ==
  /\ bound' \in {NoKey} \cup {k \in Key : created[k] > 0}
  /\ UNCHANGED <<open, epoch, frames, answers, server, outbox, awaiting,
                 attempts, promoted>>

-----------------------------------------------------------------------------
(* The connection (sessionConnectionManager.ts).                           *)

Orphan(r) == awaiting[r] = "draft" /\ bound = TempKey(r)

Replayed == {r \in Req : Orphan(r) /\ attempts[r] < MaxRecovery}

(* What the replay of r, a sendMessage with the draft's text, notes.       *)
Refresh(r) == IF r \in Replayed THEN {[key |-> NoKey, form |-> "bare"]} ELSE outbox[r]

ReplayFrames(e) == {[req |-> r, body |-> [key |-> NoKey, form |-> "bare"],
                     epoch |-> e, via |-> "recover"] : r \in Replayed}

(* recoverOrphanedDrafts, which ws.connected and ws.reconnected call.      *)
RecoverDrafts ==
  /\ attempts' = [r \in Req |-> IF r \in Replayed THEN attempts[r] + 1 ELSE attempts[r]]
  /\ outbox' = [r \in Req |-> Refresh(r)]

(* onopen: the orphaned drafts are replayed, then every noted frame is     *)
(* sent again, the replayed ones included.                                 *)
Connect ==
  /\ ~open /\ epoch < MaxEpoch
  /\ open' = TRUE /\ epoch' = epoch + 1
  /\ RecoverDrafts
  /\ frames' = frames \cup ReplayFrames(epoch + 1)
       \cup UNION {{[req |-> r, body |-> b, epoch |-> epoch + 1, via |-> "resend"]
                    : b \in Refresh(r)} : r \in Req}
  /\ UNCHANGED <<answers, server, awaiting, bound, promoted>>

(* connect() of another project finds the socket open: it only announces   *)
(* the connection again, and the drafts are replayed once more.            *)
Announce ==
  /\ open /\ Replayed # {}
  /\ RecoverDrafts
  /\ frames' = frames \cup ReplayFrames(epoch)
  /\ UNCHANGED <<open, epoch, answers, server, awaiting, bound, promoted>>

(* A frame sent on an earlier connection, or when there is none.           *)
Stale(f) == ~open \/ f.epoch # epoch

(* The connection breaks: the answers under way on it are lost, and some   *)
(* of its frames; the others are still read from the server's socket.      *)
Drop ==
  /\ open /\ open' = FALSE /\ answers' = {}
  /\ frames' \in {kept \cup {f \in frames : Stale(f)} :
                   kept \in SUBSET {f \in frames : ~Stale(f)}}
  /\ UNCHANGED <<epoch, client, server>>

-----------------------------------------------------------------------------
(* The server (ws_session_message.go, ws_broadcast.go).                    *)

(* Mutant of Reserved: a request counts as seen once its key is known.     *)
ReservedOnceResolved(r) == requests[r].key # NoKey

Reserved(r) == requests[r].seen

(* One goroutine per frame, in any order: reserve the id, or go and answer *)
(* for the request that did.                                               *)
Receive(f) ==
  /\ f \in frames /\ frames' = frames \ {f}
  /\ IF Reserved(f.req)
       THEN /\ handlers' = handlers \cup {[frame |-> f, stage |-> "repeat"]}
            /\ UNCHANGED requests
       ELSE /\ handlers' = handlers \cup {[frame |-> f, stage |-> "first"]}
            /\ requests' = [requests EXCEPT ![f.req].seen = TRUE]
  /\ UNCHANGED <<open, epoch, answers, life, created, turns, client>>

(* An answer is written to the connection its request came from.           *)
Reply(h, kind, key) ==
  answers' = IF Stale(h.frame) THEN answers
             ELSE answers \cup {[req |-> h.frame.req, kind |-> kind, key |-> key]}

At(h, stage) == h \in handlers /\ h.stage = stage

Ends(h) == handlers' = handlers \ {h}
MovesTo(h, stage) == handlers' = (handlers \ {h}) \cup {[h EXCEPT !.stage = stage]}

Resolved(h) == IF h.frame.body.key # NoKey THEN h.frame.body.key ELSE <<h.frame.req, life>>

(* Mutant of Create: the key is recorded as soon as the session is there,  *)
(* before its worktree, and stays when the session is deleted.             *)
CreateRecorded(h) ==
  /\ At(h, "first") /\ h.frame.body.key = NoKey /\ MovesTo(h, "ready")
  /\ created' = [created EXCEPT ![Resolved(h)] = @ + 1]
  /\ requests' = [requests EXCEPT ![h.frame.req].key = Resolved(h)]
  /\ UNCHANGED <<open, epoch, frames, answers, life, turns, client>>

(* A frame with a key is for that session, one without creates a session.  *)
Create(h) ==
  /\ At(h, "first") /\ h.frame.body.key = NoKey /\ MovesTo(h, "ready")
  /\ created' = [created EXCEPT ![Resolved(h)] = @ + 1]
  /\ UNCHANGED <<open, epoch, frames, answers, life, requests, turns, client>>

(* The session or plan mode cannot be set up, or the worktree of the new   *)
(* session (the context ends with the connection).  The id stays reserved, *)
(* without a key; a session without its worktree is deleted, or kept if    *)
(* only the worktree was not recorded.                                     *)
Refuse(h) ==
  /\ Ends(h) /\ Reply(h, "error", NoKey)
  /\ \/ At(h, "first") /\ UNCHANGED created
     \/ /\ At(h, "ready")
        /\ created' \in {created, [created EXCEPT ![Resolved(h)] = @ - 1]}
  /\ UNCHANGED <<open, epoch, frames, life, requests, turns, client>>

(* recordClientRequestSession: from here a repeat answers with the key.    *)
Record(h) ==
  /\ At(h, IF h.frame.body.key = NoKey THEN "ready" ELSE "first")
  /\ MovesTo(h, "recorded")
  /\ requests' = [requests EXCEPT ![h.frame.req].key = Resolved(h)]
  /\ UNCHANGED <<open, epoch, frames, answers, life, created, turns, client>>

(* session.accepted, before the message is anywhere but in this goroutine. *)
Confirm(h) ==
  /\ At(h, "recorded") /\ MovesTo(h, "answered")
  /\ Reply(h, "accepted", Resolved(h))
  /\ UNCHANGED <<open, epoch, frames, life, requests, created, turns, client>>

(* submitSessionMessage: run, or queued behind the turn that runs.         *)
HandOver(h) ==
  /\ At(h, "answered") /\ Ends(h)
  /\ turns' = [turns EXCEPT ![<<h.frame.req, life>>] =
                Append(@, [key |-> Resolved(h), form |-> h.frame.body.form])]
  /\ UNCHANGED <<open, epoch, frames, answers, life, requests, created, client>>

(* replaySessionKey, or the frame's own key while nothing is recorded.     *)
ReplayKey(h) == IF requests[h.frame.req].key # NoKey
                THEN requests[h.frame.req].key ELSE h.frame.body.key

(* Mutant of Repeat: a repeated request is dropped without an answer.      *)
RepeatSilently(h) ==
  /\ At(h, "repeat") /\ Ends(h)
  /\ UNCHANGED <<open, epoch, frames, answers, life, requests, created, turns, client>>

Repeat(h) ==
  /\ At(h, "repeat") /\ Ends(h) /\ Reply(h, "accepted", ReplayKey(h))
  /\ UNCHANGED <<open, epoch, frames, life, requests, created, turns, client>>

(* The server process is replaced (self-update): its table goes with it,   *)
(* and what its goroutines had still to do.                                *)
ServerRestart ==
  /\ life < MaxRestarts /\ life' = life + 1
  /\ open' = FALSE /\ frames' = {} /\ answers' = {}
  /\ requests' = Unreserved /\ handlers' = {}
  /\ UNCHANGED <<epoch, created, turns, client>>

-----------------------------------------------------------------------------
(* Answers at the client (handleMessage, handleSessionAccepted).           *)

(* The noted frame goes, whoever waited; a draft that is told its key is   *)
(* promoted, and the composer with it if it is still bound to the draft.   *)
Accepted(a) ==
  /\ a \in answers /\ a.kind = "accepted" /\ answers' = answers \ {a}
  /\ outbox' = [outbox EXCEPT ![a.req] = {}]
  /\ awaiting' = [awaiting EXCEPT ![a.req] = "over"]
  /\ IF awaiting[a.req] = "draft" /\ a.key # NoKey
       THEN /\ promoted' = [promoted EXCEPT ![a.req] = a.key]
            /\ bound' = IF bound = TempKey(a.req) THEN a.key ELSE bound
       ELSE UNCHANGED <<promoted, bound>>
  /\ UNCHANGED <<open, epoch, frames, server, attempts>>

(* The draft stays bound: the user has to open another session.            *)
Failed(a) ==
  /\ a \in answers /\ a.kind = "error" /\ answers' = answers \ {a}
  /\ outbox' = [outbox EXCEPT ![a.req] = {}]
  /\ awaiting' = [awaiting EXCEPT ![a.req] = "over"]
  /\ UNCHANGED <<open, epoch, frames, server, attempts, bound, promoted>>

-----------------------------------------------------------------------------
User == Rebind \/ \E r \in Req : Submit(r) \/ SubmitRefused(r)
Network == Connect \/ Announce \/ Drop
Handle == \E h \in handlers : Create(h) \/ Refuse(h) \/ Record(h) \/ Confirm(h)
                              \/ HandOver(h) \/ Repeat(h)
Server == Handle \/ ServerRestart \/ \E f \in frames : Receive(f)
Answer == \E a \in answers : Accepted(a) \/ Failed(a)

Next == User \/ Network \/ Server \/ Answer

Spec == Init /\ [][Next]_vars

-----------------------------------------------------------------------------
(* A repeated frame never runs its message a second time, nor opens a      *)
(* second session for it, while the server that saw the first one lives    *)
(* (reserveClientRequest, ws_broadcast.go).                                *)
RunsOnce == \A k \in Key : Len(turns[k]) <= 1 /\ created[k] <= 1

(* A draft becomes the session its message runs in: its key is that of a   *)
(* session the request itself created and kept, and as long as the server  *)
(* that created it lives the message was handed over there or the          *)
(* goroutine that will do so is past every error return, whichever frame   *)
(* was answered and whatever was lost in between (recordClientRequest-     *)
(* Session comes after the last session.create_failed).                    *)
RanThere(r) == \E i \in 1..Len(turns[<<r, life>>]) : turns[<<r, life>>][i].key = promoted[r]

RunsNext(r) == \E h \in handlers : /\ h.frame.req = r /\ Resolved(h) = promoted[r]
                                   /\ h.stage \in {"recorded", "answered"}

PromotedWhereItRuns ==
  \A r \in Req : promoted[r] # NoKey =>
    \E l \in 0..life : /\ promoted[r] = <<r, l>> /\ created[<<r, l>>] > 0
                      /\ l = life => RanThere(r) \/ RunsNext(r)

(* No sent message is forgotten: while the socket is open, each one that   *)
(* waits for its answer has a frame, a goroutine or an answer under way on *)
(* this very connection, so it is answered unless this one breaks too      *)
(* (resendPendingMessages; a repeat is answered, not dropped).             *)
UnderWay(r) ==
  \/ \E f \in frames : f.req = r /\ ~Stale(f)
  \/ \E h \in handlers : /\ h.frame.req = r /\ ~Stale(h.frame)
                        /\ h.stage # "answered"
  \/ \E a \in answers : a.req = r

NoneForgotten ==
  open => \A r \in Req : awaiting[r] \in {"draft", "keyed"} => UnderWay(r)

(* A draft is told its key: an accepted answer names the session the       *)
(* request was resolved to (the comment of clientRequestRecord).           *)
AcceptedNamesSession == \A a \in answers : a.kind = "accepted" => a.key # NoKey

(* A draft that is replayed after a broken connection is what the user     *)
(* sent: same request id, same message and same context                    *)
(* (the comment in useSendMessage.ts, pendingDraftRecovery.ts).            *)
ReplayedAsComposed ==
  \A k \in Key : \A i \in 1..Len(turns[k]) : turns[k][i].form = "full"

(* A message the user was told was accepted is run or queued: a promoted   *)
(* draft's message was handed over in some life of the server (the comment *)
(* of submitSessionMessage: the accepted response does not end the turn).  *)
PromotedIsRun ==
  \A r \in Req : promoted[r] # NoKey =>
    \/ \E l \in Life : turns[<<r, l>>] # <<>>
    \/ \E h \in handlers : h.frame.req = r /\ h.stage # "repeat"
=============================================================================
