------------------------------- MODULE Manifest -------------------------------
(***************************************************************************)
(* PublishToolManifest: applications that publish the tools of one         *)
(* namespace under the conflict policies, a network that loses, delays and *)
(* repeats requests, and the cloud that holds the manifest.                *)
(*                                                                         *)
(* The cloud gives every manifest a token of its own.  A publisher learns  *)
(* tokens from the results of publications, its own or those of others.    *)
(* The request has no idempotency key: whatever keeps a retry or a late    *)
(* copy from undoing the work of others is in the policy.                  *)
(***************************************************************************)
EXTENDS ApiErrors, FiniteSets

CONSTANTS
  Publishers,
  Policy,       \* per publisher, options.ConflictResolutionPolicy
  Conditional,  \* the publishers that set options.IfMatchManifestToken
  Tools,        \* per publisher, its namespace: the names and versions of its tools
  Old,          \* the tools of the manifest that may exist from the start
  Answers,      \* how an exchange can end without an answer of the cloud
  MaxToken      \* bound: manifests the cloud makes

Policies == {"default", "replace", "replace_if_token_match", "unsupported"}

ASSUME PolicyAssumption == Policy \in [Publishers -> Policies]
ASSUME ConditionalAssumption == Conditional \subseteq Publishers
\* A manifest has tools.
ASSUME OldAssumption == Old # {}
\* Nobody but the cloud acknowledges a publication, and no redirect turns the
\* PUT into a GET of the manifest.
ASSUME AnswersAssumption ==
  /\ Answers \subseteq Exchange
  /\ \A x \in Answers : ~(Success(x) /\ x.body = "good") /\ x.status \notin {301, 302, 303}
ASSUME MaxTokenAssumption == MaxToken \in Nat \ {0}

VARIABLES
  manifest,  \* the cloud: per token, the tools of the manifest it was given to
  current,   \* the cloud: the token of the manifest in force
  wire,      \* requests the cloud may yet receive, once or never
  reply,     \* per publisher, the answer of the cloud to its present call
  phase,     \* per publisher: no call, a call under way, or success
  token,     \* per publisher, the token of its options
  result,    \* per publisher, the ManifestToken it was given
  origin     \* history: per token, the request that made its manifest

cloudVars == <<manifest, current, origin>>
vars == <<cloudVars, wire, reply, phase, token, result>>

NoToken == 0
Tokens == 1 .. MaxToken
NoTools == {}
NoRequest == [publisher |-> "none", policy |-> "none", ifMatch |-> NoToken]
NoReplyYet == [answer |-> NoReply("none"), token |-> NoToken]
AllTools == {NoTools, Old} \cup {Tools[p] : p \in Publishers}

Requests == [publisher : Publishers, policy : Policies, ifMatch : 0 .. MaxToken]

TypeOK ==
  /\ manifest \in [Tokens -> AllTools]
  /\ current \in 0 .. MaxToken
  /\ \A k \in Tokens : manifest[k] = NoTools <=> k > current
  /\ wire \subseteq Requests
  /\ reply \in [Publishers -> [answer : Exchange, token : 0 .. MaxToken]]
  /\ phase \in [Publishers -> {"idle", "waiting", "succeeded"}]
  /\ token \in [Publishers -> 0 .. MaxToken]
  /\ result \in [Publishers -> 0 .. MaxToken]
  /\ origin \in [Tokens -> Requests \cup {NoRequest}]

Init ==
  /\ current \in {0, 1}
  /\ manifest = [k \in Tokens |-> IF k <= current THEN Old ELSE NoTools]
  /\ wire = {}
  /\ reply = [p \in Publishers |-> NoReplyYet]
  /\ phase = [p \in Publishers |-> "idle"]
  /\ token = [p \in Publishers |-> IF p \in Conditional THEN current ELSE NoToken]
  /\ result = [p \in Publishers |-> NoToken]
  /\ origin = [k \in Tokens |-> NoRequest]

-----------------------------------------------------------------------------
(* The client. *)

\* A mutant: a namespace without tools is published.
NoTwoVersions(tools) == \A s, t \in tools : s.name = t.name => s = t

\* A namespace has tools, and no tool in two versions.
Publishable(tools) ==
  /\ tools # NoTools
  /\ \A s, t \in tools : s.name = t.name => s = t

\* A mutant: a token is let through with the policy that does not look at it.
TokenTolerated(policy, k) ==
  \/ policy = "default" /\ k = NoToken
  \/ policy = "replace"
  \/ policy = "replace_if_token_match" /\ k # NoToken

\* A token is given with the policy that compares it, and only with that one.
ValidOptions(policy, k) ==
  \/ policy \in {"default", "replace"} /\ k = NoToken
  \/ policy = "replace_if_token_match" /\ k # NoToken

\* A mutant: the publication is sent as an unconditional one.
Unconditional(p) == [publisher |-> p, policy |-> "replace", ifMatch |-> NoToken]

Request(p) == [publisher |-> p, policy |-> Policy[p], ifMatch |-> token[p]]

\* The application takes the token of a publication, its own or another's.
LearnsToken(p) ==
  /\ phase[p] = "idle"
  /\ p \in Conditional
  /\ \E q \in Publishers : result[q] > token[p] /\ token' = [token EXCEPT ![p] = result[q]]
  /\ UNCHANGED <<cloudVars, wire, reply, phase, result>>

\* A first call, or the repetition of one that failed, whatever its error; a
\* call that its checks reject leaves no trace.
Dispatch(p) ==
  /\ phase[p] = "idle"
  /\ Publishable(Tools[p])
  /\ ValidOptions(Policy[p], token[p])
  /\ wire' = wire \cup {Request(p)}
  /\ phase' = [phase EXCEPT ![p] = "waiting"]
  /\ UNCHANGED <<cloudVars, reply, token, result>>

\* A mutant: the body of a success is not looked at.
TrustsStatus(x) == IF Success(x) THEN NoError ELSE DoErr(x)

\* A "good" body has a token and a hash.
PublishErr(x) == DoErr(x)

\* The call of p ends with exchange x, whose body names token k.
Ends(p, x, k) ==
  LET success == PublishErr(x).nil
  IN  /\ phase' = [phase EXCEPT ![p] = IF success THEN "succeeded" ELSE "idle"]
      /\ result' = IF success THEN [result EXCEPT ![p] = k] ELSE result
      /\ reply' = [reply EXCEPT ![p] = NoReplyYet]

Receives(p) ==
  /\ phase[p] = "waiting"
  /\ reply[p] # NoReplyYet
  /\ Ends(p, reply[p].answer, reply[p].token)
  /\ UNCHANGED <<cloudVars, wire, token>>

-----------------------------------------------------------------------------
(* The network, where a request is lost by never being handled. *)

Redirected(x) == x.reply /\ x.status \in {307, 308}

\* The exchange ends without an answer of the cloud; the request, or an earlier
\* copy of it, may be under way all the same.
AnsweredForCloud(p) ==
  /\ phase[p] = "waiting"
  /\ \E x \in Answers : ~Redirected(x) /\ Ends(p, x, NoToken)
  /\ UNCHANGED <<cloudVars, wire, token>>

\* A redirect that keeps the method sends the request again.
SentAgain(p) ==
  /\ phase[p] = "waiting"
  /\ \E x \in Answers : Redirected(x)
  /\ wire' = wire \cup {Request(p)}
  /\ UNCHANGED <<cloudVars, reply, phase, token, result>>

-----------------------------------------------------------------------------
(* The cloud. *)

\* An answer to a call that has ended already is lost.
Answer(r, x, k) ==
  reply' = IF phase[r.publisher] = "waiting"
             THEN [reply EXCEPT ![r.publisher] = [answer |-> x, token |-> k]]
             ELSE reply

\* May the tools of r take the place of the manifest in force?
Permits(r) ==
  CASE r.policy = "default" -> current = NoToken
    [] r.policy = "replace" -> TRUE
    [] r.policy = "replace_if_token_match" -> r.ifMatch = current

\* The tools in force already are no conflict.
InForce(r) == current # NoToken /\ manifest[current] = Tools[r.publisher]

KeepsManifest(r) ==
  /\ InForce(r)
  /\ Answer(r, Reply(200, "good"), current)
  /\ UNCHANGED cloudVars

Replaces(r) ==
  /\ ~InForce(r)
  /\ Permits(r)
  /\ current < MaxToken
  /\ current' = current + 1
  /\ manifest' = [manifest EXCEPT ![current + 1] = Tools[r.publisher]]
  /\ origin' = [origin EXCEPT ![current + 1] = r]
  /\ Answer(r, Reply(200, "good"), current + 1)

RefusesConflict(r) ==
  /\ ~InForce(r)
  /\ ~Permits(r)
  /\ Answer(r, Reply(409, "none"), NoToken)
  /\ UNCHANGED cloudVars

Handles(r) ==
  /\ r \in wire
  /\ wire' = wire \ {r}
  /\ KeepsManifest(r) \/ Replaces(r) \/ RefusesConflict(r)
  /\ UNCHANGED <<phase, token, result>>

Next ==
  \/ \E p \in Publishers :
       \/ LearnsToken(p) \/ Dispatch(p) \/ Receives(p)
       \/ AnsweredForCloud(p) \/ SentAgain(p)
  \/ \E r \in wire : Handles(r)

Spec == Init /\ [][Next]_vars

-----------------------------------------------------------------------------
(***************************************************************************)
(* No lost update: whoever gave a token replaced the manifest that has     *)
(* this token and no later one, and without a token only a publisher that  *)
(* chose to replace whatever is there has replaced anything.  No retry, no *)
(* late copy and no options that do not fit get around that.               *)
(***************************************************************************)
ReplacesByConsent ==
  \A k \in 2 .. current :
    LET r == origin[k]
    IN  IF r.ifMatch = NoToken THEN Policy[r.publisher] = "replace" ELSE r.ifMatch = k - 1

(***************************************************************************)
(* The token a publisher is given is that of a manifest with its tools.    *)
(***************************************************************************)
ResultIsOwn ==
  \A p \in Publishers :
    phase[p] = "succeeded" => result[p] \in 1 .. current /\ manifest[result[p]] = Tools[p]
=============================================================================
