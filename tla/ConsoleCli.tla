----------------------------- MODULE ConsoleCli -----------------------------
(***************************************************************************)
(* The commands of the aimount CLI that change something: "agents set" and *)
(* "agents instruction set".  Runs of the CLI, the file they read, the     *)
(* Console API client, a network that loses and delays, and the cloud.     *)
(*                                                                         *)
(* A run is one process.  It repeats nothing and keeps nothing: what it    *)
(* has done is in its exit code and in the version its output names.       *)
(* Requests have no idempotency key, so a version is made by a request and *)
(* released by another one, and a run can end between them.                *)
(***************************************************************************)
EXTENDS ApiErrors, FiniteSets

CONSTANTS
  Runs,        \* processes
  Orgs,
  NoOrg,
  Texts,       \* instructions that are not blank
  VersionIds,  \* the IDs the cloud gives to versions, none of them twice
  NoVersion,
  Answers      \* how an exchange can end without an answer of the cloud

ASSUME NamesAssumption ==
  /\ NoOrg \notin Orgs
  /\ NoVersion \notin VersionIds
  /\ Texts \cap {"missing", "blank", "none"} = {}
ASSUME OrgsAssumption == IsFiniteSet(Orgs)
\* Nobody but the cloud answers with what was asked for, at the first address.
ASSUME AnswersAssumption ==
  /\ Answers \subseteq Exchange
  /\ \A x \in Answers : ~(Success(x) /\ x.body = "good")

VARIABLES
  accessible,  \* the cloud: the organizations of the principal
  versions,    \* the cloud: per ID, the version it was given to
  released,    \* the cloud: per organization, the version in force
  wire,        \* requests the cloud may yet receive, once or never
  reply,       \* per run, the answer of the cloud to its present call
  pc,          \* per run, where it is
  args,        \* per run, what it is asked to do, and the organization of --org
  text,        \* per run, the instruction it has read
  org,         \* per run, the organization it has resolved
  version,     \* per run, the ID its create returned
  code,        \* per run, its exit code
  said,        \* per run, the version its output names
  carriedOut,  \* history: per run, the operations the cloud carried out for it
  resent,      \* history: the runs that had a request sent twice
  misled,      \* history: the runs that took another answer for the cloud's
  before       \* history: per run, the runs that had exited with 0 when it was begun

cloudVars == <<accessible, versions, released, carriedOut>>
\* What a step of one run may change, but for its calls.
local == <<pc, args, text, org, version, code, said>>
vars == <<cloudVars, wire, reply, local, resent, misled, before>>

Free == [org |-> NoOrg, text |-> "none", run |-> "none"]
Versions == [org : Orgs, text : Texts, run : Runs]
NoReplyYet == [answer |-> NoReply("none"), version |-> NoVersion]
NoArgs == [task |-> "none", org |-> NoOrg]
Args == [task : {"agent", "instruction"}, org : Orgs \cup {NoOrg}]
NoCode == 99
Calling == {"creating", "releasing", "upserting"}
Operations == {"create", "release", "upsert"}

TypeOK ==
  /\ accessible \subseteq Orgs
  /\ versions \in [VersionIds -> Versions \cup {Free}]
  /\ released \in [Orgs -> VersionIds \cup {NoVersion}]
  /\ wire \subseteq [run : Runs, op : Operations, version : VersionIds \cup {NoVersion}]
  /\ reply \in [Runs -> [answer : Exchange, version : VersionIds \cup {NoVersion}]]
  /\ pc \in [Runs -> {"start", "client", "asking", "ready", "created", "ended"} \cup Calling]
  /\ args \in [Runs -> Args \cup {NoArgs}]
  /\ text \in [Runs -> Texts \cup {"none"}]
  /\ org \in [Runs -> Orgs \cup {NoOrg}]
  /\ version \in [Runs -> VersionIds \cup {NoVersion}]
  /\ code \in [Runs -> {0, 1, 2, NoCode}]
  /\ said \in [Runs -> VersionIds \cup {NoVersion}]
  /\ carriedOut \in [Runs -> SUBSET Operations]
  /\ resent \subseteq Runs
  /\ misled \subseteq Runs
  /\ before \in [Runs -> SUBSET Runs]

Init ==
  /\ accessible \in SUBSET Orgs
  /\ versions = [v \in VersionIds |-> Free]
  /\ released = [o \in Orgs |-> NoVersion]
  /\ wire = {}
  /\ reply = [r \in Runs |-> NoReplyYet]
  /\ pc = [r \in Runs |-> "start"]
  /\ args = [r \in Runs |-> NoArgs]
  /\ text = [r \in Runs |-> "none"]
  /\ org = [r \in Runs |-> NoOrg]
  /\ version = [r \in Runs |-> NoVersion]
  /\ code = [r \in Runs |-> NoCode]
  /\ said = [r \in Runs |-> NoVersion]
  /\ carriedOut = [r \in Runs |-> {}]
  /\ resent = {}
  /\ misled = {}
  /\ before = [r \in Runs |-> {}]

-----------------------------------------------------------------------------
(* A run, before its first request. *)

Goes(r, to) == pc' = [pc EXCEPT ![r] = to]

\* The process ends with exit code n, and its output names v.
Exits(r, n, v) ==
  /\ Goes(r, "ended")
  /\ code' = [code EXCEPT ![r] = n]
  /\ said' = [said EXCEPT ![r] = v]

\* A mutant: a blank file is an instruction.
Readable(f) == f # "missing"

\* The file exists and is not blank.
Usable(f) == f \in Texts

\* Arguments that do not fit.
BadUsage(r) ==
  /\ pc[r] = "start"
  /\ Exits(r, 2, NoVersion)
  /\ UNCHANGED <<cloudVars, wire, reply, args, text, org, version, resent, misled, before>>

\* One of the arguments, wherever it stands, is "help": whatever the others ask
\* for, nothing is done and the exit code is 0.
ShowsHelp(r) ==
  /\ pc[r] = "start"
  /\ Exits(r, 0, NoVersion)
  /\ UNCHANGED <<cloudVars, wire, reply, args, text, org, version, resent, misled, before>>

\* The arguments fit; the file of an instruction is read, as it is now.
Begins(r) ==
  /\ pc[r] = "start"
  /\ before' = [before EXCEPT ![r] = {u \in Runs : code[u] = 0}]
  /\ \E a \in Args :
       /\ args' = [args EXCEPT ![r] = a]
       /\ \/ a.task = "agent" /\ Goes(r, "client") /\ UNCHANGED <<text, code, said>>
          \/ /\ a.task = "instruction"
             /\ \E file \in Texts \cup {"missing", "blank"} :
                  IF Usable(file)
                    THEN /\ text' = [text EXCEPT ![r] = file]
                         /\ Goes(r, "client")
                         /\ UNCHANGED <<code, said>>
                    ELSE Exits(r, 1, NoVersion) /\ UNCHANGED text
  /\ UNCHANGED <<cloudVars, wire, reply, org, version, resent, misled>>

\* No token, or a base URL that is none.
NoClient(r) ==
  /\ pc[r] = "client"
  /\ Exits(r, 1, NoVersion)
  /\ UNCHANGED <<cloudVars, wire, reply, args, text, org, version, resent, misled, before>>

NewClient(r) ==
  /\ pc[r] = "client"
  /\ IF args[r].org # NoOrg
       THEN Goes(r, "ready") /\ org' = [org EXCEPT ![r] = args[r].org]
       ELSE Goes(r, "asking") /\ UNCHANGED org
  /\ UNCHANGED <<cloudVars, wire, reply, args, text, version, code, said, resent, misled, before>>

\* A mutant: of several organizations any is taken.
FirstOrg(orgs) == orgs

\* The organizations that need no --org: a single one.
SoleOrg(orgs) == IF Cardinality(orgs) = 1 THEN orgs ELSE {}

\* GetPrincipal is answered.
ResolvesOrg(r) ==
  /\ pc[r] = "asking"
  /\ IF SoleOrg(accessible) = {}
       THEN Exits(r, 1, NoVersion) /\ UNCHANGED org
       ELSE /\ \E o \in SoleOrg(accessible) : org' = [org EXCEPT ![r] = o]
            /\ Goes(r, "ready")
            /\ UNCHANGED <<code, said>>
  /\ UNCHANGED <<cloudVars, wire, reply, args, text, version, resent, misled, before>>

PrincipalFails(r) ==
  /\ pc[r] = "asking"
  /\ \E x \in Answers : ~DoErr(x).nil
  /\ Exits(r, 1, NoVersion)
  /\ UNCHANGED <<cloudVars, wire, reply, args, text, org, version, resent, misled, before>>

-----------------------------------------------------------------------------
(* The requests of a run. *)

Operation(r) ==
  CASE pc[r] \in {"created", "releasing"} -> "release"
    [] pc[r] \notin {"created", "releasing"} ->
         IF args[r].task = "agent" THEN "upsert" ELSE "create"

Request(r) == [run |-> r, op |-> Operation(r), version |-> version[r]]

CallOf(op) ==
  IF op = "create" THEN "creating" ELSE IF op = "release" THEN "releasing" ELSE "upserting"

Dispatch(r) ==
  /\ pc[r] \in {"ready", "created"}
  /\ wire' = wire \cup {Request(r)}
  /\ Goes(r, CallOf(Operation(r)))
  /\ UNCHANGED <<cloudVars, reply, args, text, org, version, code, said, resent, misled, before>>

\* The reply to a create has an ID, that to an upsert a slug and a name.
DecodedErr(x) == DoErr(x)

\* A mutant: only a transport error is an error.
StatusIgnored(x) == IF x.reply THEN NoError ELSE DoErr(x)

\* The body of the reply to a release is discarded.
ReleaseErr(x) == IF Success(x) THEN NoError ELSE DoErr(x)

\* A mutant: the error of a release does not say which version was made.
Unnamed(r) == NoVersion

\* The version that the output names once the release has ended.
Named(r) == version[r]

\* The call of r ends with exchange x, whose body names version v.
Ends(r, x, v) ==
  /\ \/ /\ pc[r] = "creating"
        /\ DecodedErr(x).nil
        /\ version' = [version EXCEPT ![r] = v]
        /\ Goes(r, "created")
        /\ UNCHANGED <<code, said>>
     \/ /\ pc[r] = "releasing"
        /\ Exits(r, IF ReleaseErr(x).nil THEN 0 ELSE 1, Named(r))
        /\ UNCHANGED version
     \/ /\ pc[r] = "upserting" /\ DecodedErr(x).nil
        /\ Exits(r, 0, NoVersion)
        /\ UNCHANGED version
     \/ /\ pc[r] \in {"creating", "upserting"} /\ ~DecodedErr(x).nil
        /\ Exits(r, 1, NoVersion)
        /\ UNCHANGED version
  /\ reply' = [reply EXCEPT ![r] = NoReplyYet]

Receives(r) ==
  /\ pc[r] \in Calling
  /\ reply[r] # NoReplyYet
  /\ Ends(r, reply[r].answer, reply[r].version)
  /\ UNCHANGED <<cloudVars, wire, args, text, org, resent, misled, before>>

\* A kill between any two steps; a signal or the 30 seconds end the call of the
\* run instead, as NoReply("canceled") and NoReply("deadline").
Killed(r) ==
  /\ pc[r] # "ended"
  /\ Goes(r, "ended")
  /\ UNCHANGED <<cloudVars, wire, reply, args, text, org, version, code, said, resent, misled, before>>

-----------------------------------------------------------------------------
(* The network, where a request is lost by never being handled. *)

RedirectedAsRead(x) == x.reply /\ x.status \in {301, 302, 303}
RedirectedAsIs(x) == x.reply /\ x.status \in {307, 308}

\* What a run takes for success, at a release whatever the body says.
PassesForCloud(r, x) ==
  /\ Success(x)
  /\ \/ pc[r] = "releasing"
     \/ pc[r] = "upserting" /\ x.body = "good"

\* The call of r ends with an answer x that is not the cloud's.
EndsForCloud(r, x) ==
  /\ Ends(r, x, NoVersion)
  /\ misled' = IF PassesForCloud(r, x) THEN misled \cup {r} ELSE misled
  /\ UNCHANGED <<cloudVars, wire, args, text, org, resent, before>>

AnsweredForCloud(r) ==
  /\ pc[r] \in Calling
  /\ \E x \in Answers : ~RedirectedAsRead(x) /\ ~RedirectedAsIs(x) /\ EndsForCloud(r, x)

\* The client follows the redirect with a GET and without the body.  It may find
\* the agent at the address of its PUT; where versions are made there is none.
FollowedAsRead(r) ==
  /\ pc[r] \in Calling
  /\ \E x \in Answers : RedirectedAsRead(x)
  /\ \E body \in {"good", "bad"} :
       /\ pc[r] = "creating" => body = "bad"
       /\ EndsForCloud(r, Reply(200, body))

\* A redirect that keeps the method sends the request again.
SentAgain(r) ==
  /\ pc[r] \in Calling
  /\ \E x \in Answers : RedirectedAsIs(x)
  /\ wire' = wire \cup {Request(r)}
  /\ resent' = resent \cup {r}
  /\ UNCHANGED <<cloudVars, reply, local, misled, before>>

-----------------------------------------------------------------------------
(* The cloud. *)

\* An answer to a run that has ended is lost.
Answer(q, x, v) ==
  reply' = IF pc[q.run] = CallOf(q.op)
             THEN [reply EXCEPT ![q.run] = [answer |-> x, version |-> v]]
             ELSE reply

CarriesOut(q) == carriedOut' = [carriedOut EXCEPT ![q.run] = @ \cup {q.op}]

HandlesCreate(q) ==
  /\ q.op = "create"
  /\ org[q.run] \in accessible
  /\ \E v \in VersionIds :
       /\ versions[v] = Free
       /\ versions' = [versions EXCEPT ![v] =
            [org |-> org[q.run], text |-> text[q.run], run |-> q.run]]
       /\ Answer(q, Reply(201, "good"), v)
  /\ CarriesOut(q)
  /\ UNCHANGED released

HandlesRelease(q) ==
  /\ q.op = "release"
  /\ q.version \in VersionIds
  /\ org[q.run] \in accessible
  /\ versions[q.version].org = org[q.run]
  /\ released' = [released EXCEPT ![org[q.run]] = q.version]
  /\ Answer(q, Reply(200, "good"), NoVersion)
  /\ CarriesOut(q)
  /\ UNCHANGED versions

HandlesUpsert(q) ==
  /\ q.op = "upsert"
  /\ org[q.run] \in accessible
  /\ Answer(q, Reply(200, "good"), NoVersion)
  /\ CarriesOut(q)
  /\ UNCHANGED <<versions, released>>

\* An organization the principal has no access to, or a version that is none.
Refuses(q) ==
  /\ \/ org[q.run] \notin accessible
     \/ q.op = "release" /\ q.version = NoVersion
  /\ Answer(q, Reply(403, "none"), NoVersion)
  /\ UNCHANGED <<versions, released, carriedOut>>

Handles(q) ==
  /\ q \in wire
  /\ wire' = wire \ {q}
  /\ HandlesCreate(q) \/ HandlesRelease(q) \/ HandlesUpsert(q) \/ Refuses(q)
  /\ UNCHANGED <<accessible, local, resent, misled, before>>

Next ==
  \/ \E r \in Runs :
       \/ BadUsage(r) \/ ShowsHelp(r) \/ Begins(r)
       \/ NoClient(r) \/ NewClient(r) \/ ResolvesOrg(r) \/ PrincipalFails(r)
       \/ Dispatch(r) \/ Receives(r) \/ Killed(r)
       \/ AnsweredForCloud(r) \/ FollowedAsRead(r) \/ SentAgain(r)
  \/ \E q \in wire : Handles(q)

Spec == Init /\ [][Next]_vars

-----------------------------------------------------------------------------
\* v is the version of what r has read, for the organization r has resolved.
VersionOf(r, v) ==
  v \in VersionIds /\ versions[v] = [org |-> org[r], text |-> text[r], run |-> r]

(***************************************************************************)
(* Exit code 0 of a command is the truth: the agent was set, or the        *)
(* version the output names holds the text of the file as the run has read *)
(* it and was released.  (Help that was not asked for exits with 0 too.)   *)
(* Whether it was set or released is known unless the run was misled by a  *)
(* 2xx of somebody else or by a redirect that was followed as a GET.       *)
(***************************************************************************)
ExitZeroIsTrue ==
  \A r \in Runs : code[r] = 0 /\ args[r] # NoArgs =>
    /\ args[r].task = "instruction" => VersionOf(r, said[r])
    /\ r \notin misled =>
         (IF args[r].task = "agent" THEN "upsert" ELSE "release") \in carriedOut[r]

(***************************************************************************)
(* "If release fails, the error includes the created version ID": whatever *)
(* version an output names exists, holds what the run has read and can be  *)
(* released by hand, and a failure that names none has released nothing.   *)
(***************************************************************************)
FailureNamesVersion ==
  \A r \in Runs : code[r] = 1 =>
    IF said[r] # NoVersion THEN VersionOf(r, said[r]) ELSE "release" \notin carriedOut[r]

(***************************************************************************)
(* Nothing is ever done in an organization that was neither named nor the  *)
(* only one: with several of them a run without --org changes nothing.     *)
(***************************************************************************)
OrgNamedOrSole ==
  \A r \in Runs : carriedOut[r] # {} =>
    org[r] \in accessible /\ (org[r] = args[r].org \/ accessible = {org[r]})

(***************************************************************************)
(* A run that exits with 0 and was begun after every other run of its      *)
(* organization had done so has the last word: its version is in force.    *)
(* This is not said of runs that were misled, nor is it said where another *)
(* run's request, sent twice by a redirect or still under way since that   *)
(* run was misled, may yet be carried out.                                 *)
(***************************************************************************)
LastRunStands ==
  \A r \in Runs :
    /\ code[r] = 0 /\ args[r].task = "instruction" /\ r \notin misled
    /\ \A u \in Runs \ {r} : org[u] = org[r] => u \in before[r] /\ u \notin resent \cup misled
    => released[org[r]] = said[r]
=============================================================================
