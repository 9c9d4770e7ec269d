------------------------------- MODULE Session -------------------------------
(***************************************************************************)
(* The session methods of serverapi.Client: applications that create,      *)
(* archive, restore and delete sessions, the HTTP client between them and  *)
(* the cloud, and the cloud.                                               *)
(*                                                                         *)
(* A command is one thing an application wants done, under the idempotency *)
(* key it chose for it.  Unlike memory, an error says nothing of whether   *)
(* the command was carried out: what the application may do after any      *)
(* failed call is to repeat it under the same key.  Unlike memory as well, *)
(* redirects are followed and net/http may send a request twice.           *)
(***************************************************************************)
EXTENDS ApiErrors, FiniteSets

CONSTANTS
  Commands,    \* what the applications want done
  Kind,        \* per command: "create", "archive", "restore" or "delete"
  Of,          \* per command, the create command whose session it is about
  SessionIds,  \* the IDs the cloud gives to sessions, none of them twice
  NoSession,
  NoKey,
  Answers      \* how an exchange can end without an answer of the cloud

ASSUME KindAssumption == Kind \in [Commands -> {"create", "archive", "restore", "delete"}]
ASSUME OfAssumption ==
  /\ Of \in [Commands -> Commands]
  /\ \A c \in Commands : Kind[Of[c]] = "create" /\ (Kind[c] = "create" => Of[c] = c)
ASSUME NamesAssumption == NoSession \notin SessionIds /\ NoKey \notin Commands
\* Nobody but the cloud acknowledges a command.
ASSUME AnswersAssumption ==
  /\ Answers \subseteq Exchange
  /\ \A x \in Answers : ~(Success(x) /\ x.body = "good")

VARIABLES
  sessions,  \* the cloud: the state of each session
  done,      \* the cloud: the keys of the commands it has carried out
  made,      \* the cloud: per key of a create, the session it made
  wire,      \* requests the cloud may yet receive, once or never
  reply,     \* per command, the answer of the cloud to its present call
  phase,     \* per command: no call under way, a call under way, or success
  result,    \* per create, the SessionID the application was given
  applied,   \* history: per command, how often the cloud carried it out
  before     \* history: per command, the commands that had succeeded when it was begun

cloudVars == <<sessions, done, made, applied>>
vars == <<cloudVars, wire, reply, phase, result, before>>

NoReplyYet == [answer |-> NoReply("none"), session |-> NoSession]
NotBegun == {NoKey}
Keys == Commands \cup {NoKey}

TypeOK ==
  /\ sessions \in [SessionIds -> {"free", "active", "archived", "deleted"}]
  /\ done \subseteq Commands
  /\ made \in [Commands -> SessionIds \cup {NoSession}]
  /\ wire \subseteq [command : Commands, key : Keys, session : SessionIds \cup {NoSession}]
  /\ \A r \in wire : r.session = NoSession <=> Kind[r.command] = "create"
  /\ reply \in [Commands -> [answer : Exchange, session : SessionIds \cup {NoSession}]]
  /\ phase \in [Commands -> {"idle", "waiting", "succeeded"}]
  /\ result \in [Commands -> SessionIds \cup {NoSession}]
  /\ applied \in [Commands -> Nat]
  /\ before \in [Commands -> (SUBSET Commands) \cup {NotBegun}]

Init ==
  /\ sessions = [s \in SessionIds |-> "free"]
  /\ done = {}
  /\ made = [c \in Commands |-> NoSession]
  /\ wire = {}
  /\ reply = [c \in Commands |-> NoReplyYet]
  /\ phase = [c \in Commands |-> "idle"]
  /\ result = [c \in Commands |-> NoSession]
  /\ applied = [c \in Commands |-> 0]
  /\ before = [c \in Commands |-> NotBegun]

-----------------------------------------------------------------------------
(* The methods of the client. *)

\* A mutant: the key is checked, and not sent.
KeyNotSent(c) == NoKey

\* A delete has no key.
IdempotencyKey(c) == IF Kind[c] = "delete" THEN NoKey ELSE c

\* A mutant: an empty session ID is sent.
Anyhow(c) == TRUE

(***************************************************************************)
(* The checks that need no request: a call they reject leaves no trace.    *)
(* Of the IDs, the key, the lengths and the labels they look at, what      *)
(* matters is that the application knows the session it speaks of.         *)
(***************************************************************************)
HasSession(c) == Kind[c] = "create" \/ result[Of[c]] # NoSession

Request(c) ==
  [command |-> c, key |-> IdempotencyKey(c),
   session |-> IF Kind[c] = "create" THEN NoSession ELSE result[Of[c]]]

\* A mutant: the body of a success is not looked at.
TrustsStatus(c, x) == IF Success(x) THEN NoError ELSE DoErr(x)

(***************************************************************************)
(* Create, archive and restore decode the acknowledgement and check its    *)
(* fields: "good" is an accepted command with an ID, and for a create one  *)
(* that names the session.  A delete has no result: its body is discarded. *)
(***************************************************************************)
CommandErr(c, x) == IF Kind[c] = "delete" /\ Success(x) THEN NoError ELSE DoErr(x)

\* A first call, or the repetition of one that failed, whatever its error.
Dispatch(c) ==
  /\ phase[c] = "idle"
  /\ HasSession(c)
  /\ wire' = wire \cup {Request(c)}
  /\ phase' = [phase EXCEPT ![c] = "waiting"]
  /\ before' = IF before[c] = NotBegun
                 THEN [before EXCEPT ![c] = {u \in Commands : phase[u] = "succeeded"}]
                 ELSE before
  /\ UNCHANGED <<cloudVars, reply, result>>

\* The call of c ends with exchange x, whose body names session s.
Ends(c, x, s) ==
  LET success == CommandErr(c, x).nil
  IN  /\ phase' = [phase EXCEPT ![c] = IF success THEN "succeeded" ELSE "idle"]
      /\ result' = IF success /\ Kind[c] = "create" THEN [result EXCEPT ![c] = s] ELSE result
      /\ reply' = [reply EXCEPT ![c] = NoReplyYet]

\* The answer of the cloud arrives.
Receives(c) ==
  /\ phase[c] = "waiting"
  /\ reply[c] # NoReplyYet
  /\ Ends(c, reply[c].answer, reply[c].session)
  /\ UNCHANGED <<cloudVars, wire, before>>

-----------------------------------------------------------------------------
(* net/http and the network, where a request is lost by never being handled. *)

RedirectedAsRead(x) == x.reply /\ x.status \in {301, 302, 303}
RedirectedAsIs(x) == x.reply /\ x.status \in {307, 308}

\* The exchange ends without an answer of the cloud; the request, or an earlier
\* copy of it, may be under way all the same.
AnsweredForCloud(c) ==
  /\ phase[c] = "waiting"
  /\ \E x \in Answers :
       /\ ~RedirectedAsRead(x) /\ ~RedirectedAsIs(x)
       /\ Ends(c, x, NoSession)
  /\ UNCHANGED <<cloudVars, wire, before>>

\* The client follows the redirect with a GET and without the body: a page or
\* the session itself, whatever it finds, acknowledges nothing.
FollowedAsRead(c) ==
  /\ phase[c] = "waiting"
  /\ \E x \in Answers : RedirectedAsRead(x)
  /\ Ends(c, Reply(200, "bad"), NoSession)
  /\ UNCHANGED <<cloudVars, wire, before>>

\* A redirect that keeps the method, or a reused connection that breaks: net/http
\* takes an Idempotency-Key for the permission to send the request again.
SentAgain(c) ==
  /\ phase[c] = "waiting"
  /\ IdempotencyKey(c) # NoKey \/ \E x \in Answers : RedirectedAsIs(x)
  /\ wire' = wire \cup {Request(c)}
  /\ UNCHANGED <<cloudVars, reply, phase, result, before>>

-----------------------------------------------------------------------------
(* The cloud. *)

\* An answer to a call that has ended already is lost.
Answer(r, x, s) ==
  reply' = IF phase[r.command] = "waiting"
             THEN [reply EXCEPT ![r.command] = [answer |-> x, session |-> s]]
             ELSE reply

CarriedOut(r) ==
  /\ done' = done \cup ({r.key} \ {NoKey})
  /\ applied' = [applied EXCEPT ![r.command] = @ + 1]

\* A key names one command, which is acknowledged again and not repeated.
Replays(r) ==
  /\ r.key \in done
  /\ Answer(r, Reply(200, "good"), made[r.key])
  /\ UNCHANGED cloudVars

HandlesCreate(r) ==
  /\ Kind[r.command] = "create"
  /\ r.key \notin done
  /\ \E s \in SessionIds :
       /\ sessions[s] = "free"
       /\ sessions' = [sessions EXCEPT ![s] = "active"]
       /\ made' = [made EXCEPT ![r.command] = s]
       /\ Answer(r, Reply(200, "good"), s)
  /\ CarriedOut(r)

From(c) == IF Kind[c] = "archive" THEN "active" ELSE "archived"
Goal(c) == IF Kind[c] = "archive" THEN "archived" ELSE "active"

HandlesTransition(r) ==
  /\ Kind[r.command] \in {"archive", "restore"}
  /\ r.key \notin done
  /\ sessions[r.session] = From(r.command)
  /\ sessions' = [sessions EXCEPT ![r.session] = Goal(r.command)]
  /\ Answer(r, Reply(200, "good"), NoSession)
  /\ CarriedOut(r)
  /\ UNCHANGED made

HandlesDelete(r) ==
  /\ Kind[r.command] = "delete"
  /\ sessions[r.session] # "deleted"
  /\ sessions' = [sessions EXCEPT ![r.session] = "deleted"]
  /\ Answer(r, Reply(204, "none"), NoSession)
  /\ CarriedOut(r)
  /\ UNCHANGED made

\* 404 for a session that is gone, 409 for one that is not in the right state.
Refuses(r) ==
  /\ Kind[r.command] # "create"
  /\ r.key \notin done
  /\ \/ sessions[r.session] = "deleted" /\ Answer(r, Reply(404, "none"), NoSession)
     \/ /\ Kind[r.command] # "delete"
        /\ sessions[r.session] \notin {"deleted", From(r.command)}
        /\ Answer(r, Reply(409, "none"), NoSession)
  /\ UNCHANGED cloudVars

Handles(r) ==
  /\ r \in wire
  /\ wire' = wire \ {r}
  /\ Replays(r) \/ HandlesCreate(r) \/ HandlesTransition(r) \/ HandlesDelete(r) \/ Refuses(r)
  /\ UNCHANGED <<phase, result, before>>

Next ==
  \/ \E c \in Commands :
       \/ Dispatch(c) \/ Receives(c)
       \/ AnsweredForCloud(c) \/ FollowedAsRead(c) \/ SentAgain(c)
  \/ \E r \in wire : Handles(r)

Spec == Init /\ [][Next]_vars

-----------------------------------------------------------------------------
(***************************************************************************)
(* A command is carried out once at most, although its caller repeats any  *)
(* failed call, net/http and redirects send it again, and copies arrive    *)
(* late.                                                                   *)
(***************************************************************************)
AppliedOnce == \A c \in Commands : applied[c] <= 1

(***************************************************************************)
(* A nil error of CreateSession, ArchiveSession or RestoreSession means    *)
(* that the command has been carried out, and the SessionID of a create is *)
(* that of the one session made for it, also when the answer is a replay.  *)
(***************************************************************************)
AcknowledgedIsTrue ==
  \A c \in Commands :
    phase[c] = "succeeded" /\ Kind[c] # "delete" =>
      /\ applied[c] = 1
      /\ Kind[c] = "create" =>
           /\ result[c] \in SessionIds /\ result[c] = made[c]
           /\ \A d \in Commands \ {c} : made[d] # result[c]

\* Every other command on the session of c had succeeded before c was begun.
CameLast(c) ==
  \A u \in Commands \ {c, Of[c]} :
    Of[u] = Of[c] /\ before[u] # NotBegun => Kind[u] # "delete" /\ u \in before[c]

(***************************************************************************)
(* The last word stands: an archive or a restore that succeeded after all  *)
(* earlier ones had succeeded is not undone by a copy of one of those that *)
(* is still on its way.                                                    *)
(***************************************************************************)
LastWordStands ==
  \A c \in Commands :
    phase[c] = "succeeded" /\ Kind[c] \in {"archive", "restore"} /\ CameLast(c) =>
      sessions[result[Of[c]]] = Goal(c)

(***************************************************************************)
(* "DeleteSession permanently deletes a server-managed session": when it   *)
(* returned nil the session is gone.                                       *)
(***************************************************************************)
DeletedIsTrue ==
  \A c \in Commands :
    phase[c] = "succeeded" /\ Kind[c] = "delete" => sessions[result[Of[c]]] = "deleted"

-----------------------------------------------------------------------------
(***************************************************************************)
(* The session methods keep the contract of commands.  Callers cannot tell *)
(* the calls of a command apart, nor an error from an unknown outcome, so  *)
(* a command is one long call that is never refused.  What a delete        *)
(* reports is left out: it is not always true (DeletedIsTrue).             *)
(***************************************************************************)
Status(c) ==
  IF before[c] = NotBegun THEN "new"
  ELSE IF phase[c] = "succeeded" /\ Kind[c] # "delete" THEN "success" ELSE "open"

Contract == INSTANCE CommandContract WITH
  status <- [c \in Commands |-> Status(c)]

KeepsContract == Contract!Spec
=============================================================================
