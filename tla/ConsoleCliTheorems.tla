------------------------- MODULE ConsoleCliTheorems -------------------------
(***************************************************************************)
(* What the commands of the CLI promise, for every set of runs,            *)
(* organizations, files and faults: TypeOK, OrgNamedOrSole, ExitZeroIsTrue,*)
(* FailureNamesVersion and LastRunStands.                                  *)
(*                                                                         *)
(* A release takes any 2xx for its success, also one that is not the       *)
(* cloud's.  What ExitZeroIsTrue and LastRunStands say of releases is said *)
(* of runs that were not misled in this way; AlwaysTold names the networks *)
(* in which none is.                                                       *)
(*                                                                         *)
(* The inductive invariant says how far a run must have got for one of its *)
(* requests to be under way, what its answers say, and that a run whose    *)
(* requests were sent once has none left when it has exited with 0.        *)
(***************************************************************************)
EXTENDS ConsoleCli, FiniteSetTheorems, TLAPS

Early == {"start", "client", "asking"}

\* Where a run is says what it knows and what it has been told.
Staged ==
  /\ \A r \in Runs : pc[r] = "start" => args[r] = NoArgs
  /\ \A r \in Runs : pc[r] \in {"client", "asking", "ready"} => args[r] \in Args
  /\ \A r \in Runs : pc[r] \notin {"start", "ended"} /\ args[r].task = "instruction" => text[r] \in Texts
  /\ \A r \in Runs : pc[r] \in Early => org[r] = NoOrg
  /\ \A r \in Runs : pc[r] \in {"ready", "created"} \cup Calling => org[r] # NoOrg
  /\ \A r \in Runs : pc[r] # "ended" => code[r] = NoCode /\ said[r] = NoVersion
  /\ \A r \in Runs : pc[r] \in {"creating", "created", "releasing"} => args[r].task = "instruction"
  /\ \A r \in Runs : pc[r] = "upserting" => args[r].task = "agent"
  /\ \A r \in Runs : pc[r] \in Early \cup {"ready", "created"} => reply[r] = NoReplyYet
  /\ \A r \in Runs : org[r] # NoOrg => org[r] = args[r].org \/ accessible = {org[r]}

\* A request of r for op is under way or was carried out.
Asked(r, op) == op \in carriedOut[r] \/ \E q \in wire : q.run = r /\ q.op = op

\* How far a run has got when the cloud may know of it.
Requested ==
  /\ \A r \in Runs, op \in Operations : Asked(r, op) =>
       org[r] # NoOrg /\ pc[r] \notin Early \cup {"ready"}
  /\ \A r \in Runs : Asked(r, "release") =>
       /\ pc[r] \in {"releasing", "ended"} /\ args[r].task = "instruction"
       /\ VersionOf(r, version[r]) /\ (code[r] # NoCode => said[r] = version[r])
  /\ \A r \in Runs : Asked(r, "create") => text[r] \in Texts
  /\ \A q \in wire : q.op = "release" => q.version = version[q.run]
  /\ \A r \in Runs : carriedOut[r] # {} => org[r] \in accessible

\* What a run was told, or will be by an answer that has arrived.
Told ==
  /\ \A r \in Runs : pc[r] = "creating" /\ DoErr(reply[r].answer).nil =>
       VersionOf(r, reply[r].version)
  /\ \A r \in Runs : pc[r] = "releasing" /\ Success(reply[r].answer) => "release" \in carriedOut[r]
  /\ \A r \in Runs : pc[r] = "upserting" /\ DoErr(reply[r].answer).nil => "upsert" \in carriedOut[r]
  /\ \A r \in Runs : pc[r] \in {"created", "releasing"} => VersionOf(r, version[r])
  /\ \A r \in Runs : said[r] # NoVersion => org[r] # NoOrg /\ VersionOf(r, said[r])
  /\ ExitZeroIsTrue

\* Nobody but begun-later runs can take the last word from r.
Last(r) == \A u \in Runs \ {r} : org[u] = org[r] => u \in before[r] /\ u \notin resent \cup misled

Once ==
  /\ \A q \in wire : q.op = "release" /\ q.run \notin resent => "release" \notin carriedOut[q.run]
  /\ \A r \in Runs : \A u \in before[r] : code[u] = 0
  /\ \A r \in Runs : "release" \in carriedOut[r] /\ Last(r) => released[org[r]] = version[r]

Inductive == TypeOK /\ Staged /\ Requested /\ Told /\ Once

-----------------------------------------------------------------------------
LEMMA NoReplyIsNone ==
  /\ NoReplyYet.answer \in Exchange
  /\ ~DoErr(NoReplyYet.answer).nil /\ ~Success(NoReplyYet.answer)
  BY DEF NoReplyYet, NoReply, Exchange, DoErr, TransportError, NoError, Success, Causes, Bodies

LEMMA InductiveInit == Init => Inductive
<1> SUFFICES ASSUME Init PROVE Inductive
  OBVIOUS
<1>1. TypeOK
  BY NoReplyIsNone DEF Init, TypeOK, NoReplyYet, NoCode
<1>2. Staged
  BY DEF Init, Staged, Early, Calling
<1>3. Requested
  BY DEF Init, Requested, Asked
<1>4. Told
  BY NoReplyIsNone DEF Init, Told, ExitZeroIsTrue, NoCode
<1>5. Once
  BY DEF Init, Once
<1> QED
  BY <1>1, <1>2, <1>3, <1>4, <1>5 DEF Inductive

\* Nobody but the cloud answers with what was asked for.
LEMMA NotForCloud == \A x \in Answers : x \in Exchange /\ ~DoErr(x).nil
<1>1. ASSUME NEW x \in Exchange, ~(Success(x) /\ x.body = "good")
      PROVE  ~DoErr(x).nil
  BY <1>1 DEF DoErr, TransportError, StatusError, Malformed, NoError
<1> QED
  BY <1>1, AnswersAssumption

\* The version of a run stays its version.
LEMMA VersionKept ==
  ASSUME NEW r \in Runs, NEW v, VersionOf(r, v), org[r] # NoOrg,
         \A w \in VersionIds : versions[w] # Free => versions'[w] = versions[w],
         org'[r] = org[r], text'[r] = text[r]
  PROVE  VersionOf(r, v)'
<1>1. v \in VersionIds /\ versions[v].org = org[r]
  BY DEF VersionOf
<1>2. versions[v] # Free
  BY <1>1 DEF Free
<1> QED
  BY <1>1, <1>2 DEF VersionOf

-----------------------------------------------------------------------------
(* The steps of a run before its first request. *)

LEMMA EarlyStep ==
  ASSUME Inductive, TypeOK', NEW r \in Runs, pc[r] \in Early,
         UNCHANGED <<cloudVars, wire, reply, version, resent, misled>>,
         \A u \in Runs \ {r} :
           /\ pc'[u] = pc[u] /\ args'[u] = args[u] /\ text'[u] = text[u] /\ org'[u] = org[u]
           /\ code'[u] = code[u] /\ said'[u] = said[u] /\ before'[u] = before[u],
         \A u \in before'[r] : u \in before[r] \/ code[u] = 0,
         said'[r] = NoVersion,
         pc'[r] # "ended" /\ args'[r].task = "instruction" => text'[r] \in Texts,
         \/ /\ pc'[r] = "ended" /\ org'[r] = NoOrg
            /\ code'[r] = 0 => args'[r] = NoArgs
         \/ /\ pc'[r] \in {"client", "asking"} /\ args'[r] \in Args
            /\ org'[r] = NoOrg /\ code'[r] = NoCode
         \/ /\ pc'[r] = "ready" /\ args'[r] \in Args /\ org'[r] # NoOrg /\ code'[r] = NoCode
            /\ org'[r] = args'[r].org \/ accessible = {org'[r]}
  PROVE  Inductive'
<1> USE DEF cloudVars
<1>1. /\ org[r] = NoOrg /\ code[r] = NoCode /\ said[r] = NoVersion /\ reply[r] = NoReplyYet
      /\ pc[r] # "ended"
  BY DEF Inductive, Staged, Early
<1>2. pc'[r] \in {"client", "asking", "ready", "ended"}
  OBVIOUS
<1>3. Staged'
  BY <1>1, <1>2 DEF Inductive, Staged, Early, Calling
<1>4. \A u \in Runs, op \in Operations : Asked(u, op)' => Asked(u, op) /\ u # r
  <2>1. \A op \in Operations : ~Asked(r, op)
    BY <1>1 DEF Inductive, Requested
  <2> QED
    BY <2>1 DEF Asked
<1>5. \A v \in Runs \ {r}, w \in VersionIds : org[v] # NoOrg /\ VersionOf(v, w) => VersionOf(v, w)'
  BY VersionKept
<1>6. Requested'
  <2>1. \A u \in Runs, op \in Operations : Asked(u, op)' =>
          org'[u] # NoOrg /\ pc'[u] \notin Early \cup {"ready"}
    BY <1>4 DEF Inductive, Requested
  <2>2. ASSUME NEW u \in Runs, Asked(u, "release")'
        PROVE  /\ pc'[u] \in {"releasing", "ended"} /\ args'[u].task = "instruction"
               /\ VersionOf(u, version[u])' /\ (code'[u] # NoCode => said'[u] = version[u])
    <3>1. u # r /\ Asked(u, "release") /\ org[u] # NoOrg
      BY <1>4, <2>2 DEF Operations, Inductive, Requested
    <3>2. VersionOf(u, version[u]) /\ version[u] \in VersionIds
      BY <3>1 DEF Inductive, Requested, VersionOf
    <3>3. VersionOf(u, version[u])'
      BY <3>1, <3>2, <1>5 DEF VersionOf
    <3> QED
      BY <3>1, <3>3 DEF Inductive, Requested
  <2>3. \A u \in Runs : carriedOut[u] # {} => u # r
    <3>1. carriedOut[r] \subseteq Operations
      BY DEF Inductive, TypeOK
    <3> QED
      BY <1>1, <3>1 DEF Inductive, Requested, Asked
  <2>4. /\ \A q \in wire : q.op = "release" => q.version = version[q.run]
        /\ \A u \in Runs : carriedOut[u] # {} => org'[u] \in accessible
    BY <2>3 DEF Inductive, Requested
  <2>5. \A u \in Runs : Asked(u, "create")' => text'[u] \in Texts
    BY <1>4 DEF Inductive, Requested, Operations
  <2> QED
    BY <2>1, <2>2, <2>4, <2>5 DEF Requested
<1>7. Told'
  <2>1. ASSUME NEW u \in Runs, pc'[u] = "creating", DoErr(reply[u].answer).nil
        PROVE  VersionOf(u, reply[u].version)'
    <3>1. u # r /\ org[u] # NoOrg /\ VersionOf(u, reply[u].version)
      BY <1>2, <2>1 DEF Inductive, Told, Staged, Calling
    <3> QED
      BY <3>1, <1>5 DEF VersionOf
  <2>2. /\ \A u \in Runs : pc'[u] = "releasing" /\ Success(reply[u].answer) => "release" \in carriedOut[u]
        /\ \A u \in Runs : pc'[u] = "upserting" /\ DoErr(reply[u].answer).nil => "upsert" \in carriedOut[u]
    BY <1>2 DEF Inductive, Told
  <2>3. ASSUME NEW u \in Runs, pc'[u] \in {"created", "releasing"}
        PROVE  VersionOf(u, version[u])'
    <3>1. u # r /\ org[u] # NoOrg /\ VersionOf(u, version[u])
      BY <1>2, <2>3 DEF Inductive, Told, Staged, Calling
    <3> QED
      BY <3>1, <1>5 DEF VersionOf
  <2>4. ASSUME NEW u \in Runs, said'[u] # NoVersion
        PROVE  u # r /\ org'[u] # NoOrg /\ VersionOf(u, said[u])'
    <3>1. u # r /\ org[u] # NoOrg /\ VersionOf(u, said[u])
      BY <2>4 DEF Inductive, Told
    <3> QED
      BY <3>1, <1>5 DEF VersionOf
  <2>5. ExitZeroIsTrue'
    <3> SUFFICES ASSUME NEW u \in Runs, code'[u] = 0, args'[u] # NoArgs
                 PROVE  /\ args'[u].task = "instruction" => VersionOf(u, said[u])' /\ said'[u] = said[u]
                        /\ u \notin misled =>
                             (IF args'[u].task = "agent" THEN "upsert" ELSE "release") \in carriedOut[u]
      BY DEF ExitZeroIsTrue, VersionOf
    <3>1. u # r
      BY DEF NoCode
    <3>2. ASSUME args[u].task = "instruction" PROVE VersionOf(u, said[u])'
      <4>1. VersionOf(u, said[u])
        BY <3>1, <3>2 DEF Inductive, Told, ExitZeroIsTrue
      <4>2. org[u] # NoOrg
        BY <4>1, NamesAssumption DEF Inductive, Told, VersionOf
      <4> QED
        BY <3>1, <4>1, <4>2, <1>5 DEF VersionOf
    <3> QED
      BY <3>1, <3>2 DEF Inductive, Told, ExitZeroIsTrue
  <2> QED
    BY <2>1, <2>2, <2>3, <2>4, <2>5 DEF Told, VersionOf
<1>8. Once'
  <2>1. \A u \in Runs : code[u] = 0 => code'[u] = 0
    BY <1>1 DEF NoCode
  <2>2. \A u \in Runs : \A v \in before'[u] : code'[v] = 0
    BY <2>1 DEF Inductive, TypeOK, Once
  <2>3. ASSUME NEW u \in Runs, "release" \in carriedOut[u], Last(u)'
        PROVE  released[org'[u]] = version[u]
    <3>1. u # r /\ org[u] # NoOrg
      BY <1>4, <2>3 DEF Asked, Operations, Inductive, Requested
    <3>2. Last(u)
      BY <1>1, <2>3, <3>1 DEF Last
    <3> QED
      BY <2>3, <3>1, <3>2 DEF Inductive, Once
  <2> QED
    BY <2>2, <2>3 DEF Inductive, Once
<1> QED
  BY <1>3, <1>6, <1>7, <1>8 DEF Inductive

LEMMA BeforeClient ==
  ASSUME Inductive, NEW r \in Runs,
         BadUsage(r) \/ ShowsHelp(r) \/ Begins(r) \/ NoClient(r) \/ NewClient(r)
  PROVE  Inductive'
<1> USE DEF cloudVars
<1>1. ASSUME pc[r] \in Early
      PROVE  org[r] = NoOrg /\ code[r] = NoCode /\ said[r] = NoVersion
  BY <1>1 DEF Inductive, Staged, Early
<1>2. ASSUME BadUsage(r) PROVE Inductive'
  <2>1. TypeOK'
    BY <1>2 DEF BadUsage, Exits, Goes, Inductive, TypeOK
  <2> QED
    BY <1>1, <1>2, <2>1, EarlyStep DEF BadUsage, Exits, Goes, Inductive, TypeOK, Early
<1>3. ASSUME ShowsHelp(r) PROVE Inductive'
  <2>1. TypeOK'
    BY <1>3 DEF ShowsHelp, Exits, Goes, Inductive, TypeOK
  <2>2. args[r] = NoArgs
    BY <1>3 DEF ShowsHelp, Inductive, Staged
  <2> QED
    BY <1>1, <1>3, <2>1, <2>2, EarlyStep DEF ShowsHelp, Exits, Goes, Inductive, TypeOK, Early
<1>4. ASSUME Begins(r) PROVE Inductive'
  <2>1. /\ pc[r] \in Early
        /\ before' = [before EXCEPT ![r] = {u \in Runs : code[u] = 0}]
        /\ UNCHANGED <<cloudVars, wire, reply, org, version, resent, misled>>
    BY <1>4 DEF Begins, Early
  <2>2. PICK a \in Args :
          /\ args' = [args EXCEPT ![r] = a]
          /\ \/ a.task = "agent" /\ Goes(r, "client") /\ UNCHANGED <<text, code, said>>
             \/ /\ a.task = "instruction"
                /\ \E file \in Texts \cup {"missing", "blank"} :
                     IF Usable(file)
                       THEN /\ text' = [text EXCEPT ![r] = file]
                            /\ Goes(r, "client")
                            /\ UNCHANGED <<code, said>>
                       ELSE Exits(r, 1, NoVersion) /\ UNCHANGED text
    BY <1>4 DEF Begins
  <2>3. \/ a.task # "instruction" /\ Goes(r, "client") /\ UNCHANGED <<text, code, said>>
        \/ \E file \in Texts : /\ text' = [text EXCEPT ![r] = file]
                               /\ Goes(r, "client") /\ UNCHANGED <<code, said>>
        \/ Exits(r, 1, NoVersion) /\ UNCHANGED text
    BY <2>2 DEF Usable
  <2>4. before' \in [Runs -> SUBSET Runs] /\ args' \in [Runs -> Args \cup {NoArgs}]
    <3>1. {u \in Runs : code[u] = 0} \in SUBSET Runs
      OBVIOUS
    <3> QED
      BY <2>1, <2>2, <3>1 DEF Inductive, TypeOK
  <2>5. TypeOK'
    <3>1. text' \in [Runs -> Texts \cup {"none"}]
      BY <2>3 DEF Inductive, TypeOK
    <3>2. /\ pc' \in [Runs -> {"start", "client", "asking", "ready", "created", "ended"} \cup Calling]
          /\ code' \in [Runs -> {0, 1, 2, NoCode}]
          /\ said' \in [Runs -> VersionIds \cup {NoVersion}]
      BY <2>3 DEF Exits, Goes, Inductive, TypeOK
    <3> QED
      BY <2>1, <2>4, <3>1, <3>2 DEF Inductive, TypeOK
  <2>6. /\ \A u \in Runs \ {r} : before'[u] = before[u] /\ args'[u] = args[u]
        /\ args'[r] \in Args /\ args'[r] = a
        /\ \A u \in before'[r] : code[u] = 0
    BY <2>1, <2>2 DEF Inductive, TypeOK
  <2> QED
    BY <1>1, <2>1, <2>3, <2>5, <2>6, EarlyStep DEF Exits, Goes, Inductive, TypeOK
<1>5. ASSUME NoClient(r) PROVE Inductive'
  <2>1. TypeOK'
    BY <1>5 DEF NoClient, Exits, Goes, Inductive, TypeOK
  <2> QED
    BY <1>1, <1>5, <2>1, EarlyStep DEF NoClient, Exits, Goes, Inductive, TypeOK, Early
<1>6. ASSUME NewClient(r) PROVE Inductive'
  <2>1. TypeOK'
    <3>1. args[r].org \in Orgs \cup {NoOrg}
      BY DEF Inductive, TypeOK, Args, NoArgs
    <3> QED
      BY <1>6, <3>1 DEF NewClient, Goes, Inductive, TypeOK
  <2>2. args[r] \in Args /\ (args[r].task = "instruction" => text[r] \in Texts)
    BY <1>6 DEF NewClient, Inductive, Staged
  <2> QED
    BY <1>1, <1>6, <2>1, <2>2, EarlyStep DEF NewClient, Goes, Inductive, TypeOK, Early
<1> QED
  BY <1>2, <1>3, <1>4, <1>5, <1>6

\* The organization that needs no --org is the only accessible one.
LEMMA OnlyOrg ==
  ASSUME TypeOK, NEW o \in SoleOrg(accessible)
  PROVE  o \in Orgs /\ accessible = {o}
<1>1. IsFiniteSet(accessible) /\ accessible \subseteq Orgs
  BY OrgsAssumption, FS_Subset DEF TypeOK
<1>2. Cardinality(accessible) = 1 /\ o \in accessible
  BY DEF SoleOrg
<1>3. \E x : accessible = {x}
  BY <1>1, <1>2, FS_Singleton
<1> QED
  BY <1>1, <1>2, <1>3

LEMMA PrincipalStep ==
  ASSUME Inductive, NEW r \in Runs, ResolvesOrg(r) \/ PrincipalFails(r)
  PROVE  Inductive'
<1> USE DEF cloudVars
<1>1. org[r] = NoOrg /\ code[r] = NoCode /\ said[r] = NoVersion /\ pc[r] \in Early
  BY DEF ResolvesOrg, PrincipalFails, Inductive, Staged, Early
<1>2. \/ Exits(r, 1, NoVersion) /\ UNCHANGED org
      \/ /\ Goes(r, "ready") /\ UNCHANGED <<code, said>>
         /\ \E o \in SoleOrg(accessible) : org' = [org EXCEPT ![r] = o]
  BY DEF ResolvesOrg, PrincipalFails
<1>3. UNCHANGED <<cloudVars, wire, reply, args, text, version, resent, misled, before>>
  BY DEF ResolvesOrg, PrincipalFails
<1>4. CASE Exits(r, 1, NoVersion) /\ UNCHANGED org
  <2>1. TypeOK'
    BY <1>3, <1>4 DEF Exits, Goes, Inductive, TypeOK
  <2> QED
    BY <1>1, <1>3, <1>4, <2>1, EarlyStep DEF Exits, Goes, Inductive, TypeOK
<1>5. ASSUME Goes(r, "ready"), UNCHANGED <<code, said>>,
             NEW o \in SoleOrg(accessible), org' = [org EXCEPT ![r] = o]
      PROVE  Inductive'
  <2>1. o \in Orgs /\ o # NoOrg /\ accessible = {o}
    BY OnlyOrg, NamesAssumption DEF Inductive
  <2>2. TypeOK'
    BY <1>3, <1>5, <2>1 DEF Goes, Inductive, TypeOK
  <2>3. args[r] \in Args /\ (args[r].task = "instruction" => text[r] \in Texts)
    BY DEF ResolvesOrg, PrincipalFails, Inductive, Staged
  <2> QED
    BY <1>1, <1>3, <1>5, <2>1, <2>2, <2>3, EarlyStep DEF Goes, Inductive, TypeOK
<1> QED
  BY <1>2, <1>4, <1>5

-----------------------------------------------------------------------------
(* The requests of a run. *)

LEMMA OperationOf ==
  ASSUME Inductive, NEW r \in Runs
  PROVE  /\ pc[r] = "ready" => Operation(r) \in {"create", "upsert"}
                               /\ (Operation(r) = "upsert" <=> args[r].task = "agent")
         /\ pc[r] \in {"created", "releasing"} => Operation(r) = "release"
         /\ pc[r] \in Calling => CallOf(Operation(r)) = pc[r]
         /\ Operation(r) \in Operations
<1>1. CASE pc[r] \in {"created", "releasing"}
  BY <1>1 DEF Operation, CallOf, Operations, Calling
<1>2. CASE pc[r] \notin {"created", "releasing"}
  <2>1. Operation(r) = IF args[r].task = "agent" THEN "upsert" ELSE "create"
    BY <1>2 DEF Operation
  <2> QED
    BY <1>2, <2>1 DEF CallOf, Operations, Calling, Inductive, Staged
<1> QED
  BY <1>1, <1>2

\* The first request, the second one, or a copy of the present one.
LEMMA SendsStep ==
  ASSUME Inductive, NEW r \in Runs, wire' = wire \cup {Request(r)},
         UNCHANGED <<cloudVars, reply, args, text, org, version, code, said, misled, before>>,
         \/ /\ pc[r] \in {"ready", "created"} /\ UNCHANGED resent
            /\ pc' = [pc EXCEPT ![r] = CallOf(Operation(r))]
         \/ pc[r] \in Calling /\ UNCHANGED pc /\ resent' = resent \cup {r}
  PROVE  Inductive'
<1> USE DEF cloudVars
<1> DEFINE op == Operation(r)
<1>1. /\ op \in Operations
      /\ op = "release" <=> pc[r] \in {"created", "releasing"}
      /\ pc'[r] = CallOf(op) /\ pc'[r] \in Calling
      /\ \A u \in Runs \ {r} : pc'[u] = pc[u]
  <2>1. CASE pc[r] \in Calling
    BY <2>1, OperationOf DEF Calling, Inductive, TypeOK, CallOf, Operations
  <2>2. CASE pc[r] \in {"ready", "created"}
    BY <2>2, OperationOf DEF Calling, Inductive, TypeOK, CallOf, Operations
  <2> QED
    BY <2>1, <2>2
<1>2. Request(r).run = r /\ Request(r).op = op /\ Request(r).version = version[r]
  BY DEF Request
<1>3. org[r] # NoOrg /\ code[r] = NoCode /\ said[r] = NoVersion /\ pc[r] # "ended"
  BY DEF Inductive, Staged, Calling
<1>4. /\ op = "upsert" => args[r].task = "agent"
      /\ op \in {"create", "release"} => args[r].task = "instruction"
  <2>1. pc[r] = "ready" => args[r].task \in {"agent", "instruction"}
    BY DEF Inductive, Staged, Args
  <2>2. pc[r] \in {"creating", "created", "releasing"} => args[r].task = "instruction"
    BY DEF Inductive, Staged
  <2>3. pc[r] = "upserting" => args[r].task = "agent"
    BY DEF Inductive, Staged
  <2>4. pc[r] \in {"ready", "created", "creating", "releasing", "upserting"}
    BY DEF Calling
  <2>5. CASE pc[r] \in {"created", "releasing"}
    BY <2>2, <2>5, <1>1
  <2>6. CASE pc[r] \in {"ready", "creating", "upserting"}
    <3>1. op = IF args[r].task = "agent" THEN "upsert" ELSE "create"
      BY <2>6 DEF Operation
    <3> QED
      BY <2>1, <2>2, <2>3, <2>6, <3>1
  <2> QED
    BY <2>4, <2>5, <2>6
\* A request that is not a copy is for what has never been asked for.
<1>5. ASSUME r \notin resent' PROVE ~Asked(r, op)
  <2>1. pc[r] \in {"ready", "created"}
    BY <1>5
  <2>2. CASE pc[r] = "ready"
    BY <1>1, <2>2 DEF Inductive, Requested
  <2>3. CASE pc[r] = "created"
    BY <1>1, <2>3 DEF Inductive, Requested
  <2> QED
    BY <2>1, <2>2, <2>3
<1>6. \A u \in Runs, o \in Operations : Asked(u, o)' <=> Asked(u, o) \/ (u = r /\ o = op)
  BY <1>2 DEF Asked
<1>7. \/ pc'[r] = "creating" /\ op = "create"
      \/ pc'[r] = "releasing" /\ op = "release"
      \/ pc'[r] = "upserting" /\ op = "upsert"
  BY <1>1 DEF CallOf, Operations
<1>8. pc[r] \in {"ready", "created"} => reply[r] = NoReplyYet
  BY DEF Inductive, Staged
<1>9. \A v \in Runs, w \in VersionIds \cup {NoVersion} : VersionOf(v, w)' <=> VersionOf(v, w)
  BY DEF VersionOf
<1>10. TypeOK'
  <2>1. Request(r) \in [run : Runs, op : Operations, version : VersionIds \cup {NoVersion}]
    BY <1>1 DEF Request, Inductive, TypeOK
  <2>2. pc' \in [Runs -> {"start", "client", "asking", "ready", "created", "ended"} \cup Calling]
    BY <1>1 DEF Inductive, TypeOK
  <2>3. resent' \subseteq Runs
    BY DEF Inductive, TypeOK
  <2> QED
    BY <2>1, <2>2, <2>3 DEF Inductive, TypeOK
<1>11. Staged'
  BY <1>1, <1>3, <1>4, <1>7 DEF Inductive, Staged, Early, Calling
<1>12. Requested'
  <2>1. \A u \in Runs, o \in Operations : Asked(u, o)' =>
          org[u] # NoOrg /\ pc'[u] \notin Early \cup {"ready"}
    <3>1. pc'[r] \notin Early \cup {"ready"}
      BY <1>7 DEF Early
    <3> QED
      BY <1>1, <1>3, <1>6, <3>1 DEF Inductive, Requested
  <2>2. ASSUME NEW u \in Runs, Asked(u, "release")'
        PROVE  /\ pc'[u] \in {"releasing", "ended"} /\ args[u].task = "instruction"
               /\ VersionOf(u, version[u]) /\ (code[u] # NoCode => said[u] = version[u])
    <3>1. CASE u = r /\ op = "release"
      BY <1>1, <1>3, <1>4, <1>7, <3>1 DEF Inductive, Told
    <3>2. CASE Asked(u, "release") /\ u # r
      BY <1>1, <3>2 DEF Inductive, Requested
    <3>3. CASE Asked(u, "release") /\ u = r
      BY <1>1, <1>3, <1>7, <3>3 DEF Inductive, Requested
    <3> QED
      BY <1>6, <2>2, <3>1, <3>2, <3>3 DEF Operations
  <2>3. \A q \in wire' : q.op = "release" => q.version = version[q.run]
    BY <1>2 DEF Inductive, Requested
  <2>4. ASSUME NEW u \in Runs, Asked(u, "create")'
        PROVE  text[u] \in Texts
    <3>1. CASE Asked(u, "create")
      BY <3>1 DEF Inductive, Requested
    <3>2. CASE u = r /\ op = "create"
      <4>1. pc[r] \notin {"start", "ended"}
        BY DEF Calling
      <4> QED
        BY <1>4, <3>2, <4>1 DEF Inductive, Staged
    <3> QED
      BY <1>6, <2>4, <3>1, <3>2 DEF Operations
  <2> QED
    BY <2>1, <2>2, <2>3, <2>4 DEF Inductive, Requested, VersionOf
<1>13. Told'
  <2>1. \A u \in Runs : pc'[u] # pc[u] => ~DoErr(reply[u].answer).nil /\ ~Success(reply[u].answer)
    BY <1>1, <1>8, NoReplyIsNone DEF Calling
  <2>2. \A u \in Runs : pc'[u] \in {"created", "releasing"} => pc[u] \in {"created", "releasing"}
    BY <1>1, <1>7
  <2>3. ExitZeroIsTrue'
    BY DEF Inductive, Told, ExitZeroIsTrue, VersionOf
  <2> QED
    BY <2>1, <2>2, <2>3 DEF Inductive, Told, VersionOf
<1>14. Once'
  <2>1. ASSUME NEW q \in wire', q.op = "release", q.run \notin resent'
        PROVE  "release" \notin carriedOut[q.run]
    <3>1. CASE q \in wire
      BY <2>1, <3>1 DEF Inductive, Once
    <3>2. CASE q = Request(r)
      BY <1>2, <1>5, <2>1, <3>2 DEF Asked
    <3> QED
      BY <3>1, <3>2
  <2>2. \A u \in Runs : Last(u)' => Last(u)
    BY DEF Last
  <2> QED
    BY <2>1, <2>2 DEF Inductive, Once
<1> QED
  BY <1>10, <1>11, <1>12, <1>13, <1>14 DEF Inductive

LEMMA EndsStep ==
  ASSUME Inductive, NEW r \in Runs, NEW x \in Exchange, NEW v \in VersionIds \cup {NoVersion},
         pc[r] \in Calling, Ends(r, x, v), UNCHANGED <<cloudVars, wire, args, text, org, resent, before>>,
         misled \subseteq misled', misled' \subseteq Runs,
         pc[r] = "creating" /\ DoErr(x).nil => VersionOf(r, v),
         pc[r] = "releasing" /\ Success(x) => r \in misled' \/ "release" \in carriedOut[r],
         pc[r] = "upserting" /\ DoErr(x).nil => r \in misled' \/ "upsert" \in carriedOut[r]
  PROVE  Inductive'
<1> USE DEF cloudVars
<1> DEFINE created ==
             /\ pc[r] = "creating" /\ pc' = [pc EXCEPT ![r] = "created"] /\ UNCHANGED <<code, said>>
             /\ version' = [version EXCEPT ![r] = v] /\ VersionOf(r, v)
           afterRelease ==
             /\ pc[r] = "releasing" /\ pc' = [pc EXCEPT ![r] = "ended"] /\ UNCHANGED version
             /\ said' = [said EXCEPT ![r] = version[r]]
             /\ \/ /\ code' = [code EXCEPT ![r] = 0]
                   /\ r \in misled' \/ "release" \in carriedOut[r]
                \/ code' = [code EXCEPT ![r] = 1]
           finished ==
             /\ pc[r] \in {"creating", "upserting"}
             /\ pc' = [pc EXCEPT ![r] = "ended"] /\ UNCHANGED version
             /\ said' = [said EXCEPT ![r] = NoVersion]
             /\ \/ /\ code' = [code EXCEPT ![r] = 0] /\ pc[r] = "upserting"
                   /\ r \in misled' \/ "upsert" \in carriedOut[r]
                \/ code' = [code EXCEPT ![r] = 1]
<1>1. created \/ afterRelease \/ finished
  <2>1. CASE pc[r] = "creating" /\ DecodedErr(x).nil
    BY <2>1 DEF Ends, Goes, DecodedErr
  <2>2. CASE pc[r] = "releasing"
    <3>1. ReleaseErr(x).nil => Success(x)
      BY DEF ReleaseErr, DoErr, TransportError, StatusError, Malformed, NoError
    <3> QED
      BY <2>2, <3>1 DEF Ends, Exits, Goes, Named
  <2>3. CASE pc[r] = "upserting" /\ DecodedErr(x).nil
    BY <2>3 DEF Ends, Exits, Goes, DecodedErr
  <2>4. CASE pc[r] \in {"creating", "upserting"} /\ ~DecodedErr(x).nil
    BY <2>4 DEF Ends, Exits, Goes
  <2> QED
    BY <2>1, <2>2, <2>3, <2>4 DEF Calling
<1>2. reply' = [reply EXCEPT ![r] = NoReplyYet]
  BY DEF Ends
<1>3. org[r] # NoOrg /\ code[r] = NoCode /\ said[r] = NoVersion
  BY DEF Inductive, Staged, Calling
<1>4. \A u \in Runs, w \in VersionIds \cup {NoVersion} : VersionOf(u, w)' <=> VersionOf(u, w)
  BY DEF VersionOf
<1>5. \A u \in Runs, o \in Operations : Asked(u, o)' <=> Asked(u, o)
  BY DEF Asked
<1>6. TypeOK'
  <2>1. version[r] \in VersionIds \cup {NoVersion} /\ NoReplyYet \in [answer : Exchange, version : VersionIds \cup {NoVersion}]
    BY NoReplyIsNone DEF Inductive, TypeOK, NoReplyYet
  <2>2. reply' \in [Runs -> [answer : Exchange, version : VersionIds \cup {NoVersion}]]
    BY <1>2, <2>1 DEF Inductive, TypeOK
  <2>3. /\ pc' \in [Runs -> {"start", "client", "asking", "ready", "created", "ended"} \cup Calling]
        /\ version' \in [Runs -> VersionIds \cup {NoVersion}]
        /\ code' \in [Runs -> {0, 1, 2, NoCode}]
        /\ said' \in [Runs -> VersionIds \cup {NoVersion}]
    <3>1. CASE created
      BY <3>1 DEF Inductive, TypeOK
    <3>2. CASE afterRelease
      BY <2>1, <3>2 DEF Inductive, TypeOK
    <3>3. CASE finished
      BY <3>3 DEF Inductive, TypeOK
    <3> QED
      BY <1>1, <3>1, <3>2, <3>3
  <2> QED
    BY <2>2, <2>3 DEF Inductive, TypeOK
\* What of this is needed below, without the functions.
<1>7. \A u \in Runs \ {r} :
        /\ pc'[u] = pc[u] /\ version'[u] = version[u] /\ code'[u] = code[u] /\ said'[u] = said[u]
        /\ reply'[u] = reply[u]
  BY <1>1, <1>2 DEF Inductive, TypeOK
<1>8. reply'[r] = NoReplyYet
  BY <1>2 DEF Inductive, TypeOK
<1>9. \/ /\ pc[r] = "creating" /\ pc'[r] = "created" /\ code'[r] = NoCode /\ said'[r] = NoVersion
         /\ version'[r] = v /\ VersionOf(r, v)
      \/ /\ pc[r] = "releasing" /\ pc'[r] = "ended" /\ version'[r] = version[r]
         /\ said'[r] = version[r] /\ (code'[r] = 0 => r \in misled' \/ "release" \in carriedOut[r])
      \/ /\ pc[r] \in {"creating", "upserting"} /\ pc'[r] = "ended" /\ version'[r] = version[r]
         /\ said'[r] = NoVersion
         /\ code'[r] = 0 => pc[r] = "upserting" /\ (r \in misled' \/ "upsert" \in carriedOut[r])
  BY <1>1, <1>3 DEF Inductive, TypeOK
<1> HIDE DEF created, afterRelease, finished
<1>10. Staged'
  BY <1>3, <1>7, <1>8, <1>9 DEF Inductive, Staged, Early, Calling
<1>11. Asked(r, "release") => version'[r] = version[r] /\ pc[r] = "releasing"
  BY <1>9 DEF Inductive, Requested, Calling
<1>12. \A u \in Runs : Asked(u, "release") => version'[u] = version[u]
  BY <1>7, <1>11
<1>13. Requested'
  <2>1. \A u \in Runs, o \in Operations : Asked(u, o)' =>
          org[u] # NoOrg /\ pc'[u] \notin Early \cup {"ready"}
    <3>1. pc'[r] \notin Early \cup {"ready"}
      BY <1>9 DEF Early
    <3> QED
      BY <1>5, <1>7, <3>1 DEF Inductive, Requested
  <2>2. ASSUME NEW u \in Runs, Asked(u, "release")'
        PROVE  /\ pc'[u] \in {"releasing", "ended"} /\ args[u].task = "instruction"
               /\ VersionOf(u, version'[u]) /\ (code'[u] # NoCode => said'[u] = version'[u])
    <3>1. Asked(u, "release")
      BY <1>5, <2>2 DEF Operations
    <3>2. CASE u # r
      BY <1>7, <3>1, <3>2 DEF Inductive, Requested
    <3>3. CASE u = r
      BY <1>9, <1>11, <3>1, <3>3 DEF Inductive, Requested
    <3> QED
      BY <3>2, <3>3
  <2>3. \A q \in wire : q.op = "release" => q.version = version'[q.run]
    <3>1. \A q \in wire : q.op = "release" => q.run \in Runs /\ Asked(q.run, "release")
      BY DEF Asked, Inductive, TypeOK
    <3> QED
      BY <1>12, <3>1 DEF Inductive, Requested
  <2>4. \A u \in Runs : Asked(u, "create")' => text[u] \in Texts
    BY <1>5 DEF Inductive, Requested, Operations
  <2> QED
    BY <2>1, <2>2, <2>3, <2>4 DEF Inductive, Requested, VersionOf
<1>14. Told'
  <2>1. \A u \in Runs : pc'[u] = "creating" /\ DoErr(reply'[u].answer).nil => VersionOf(u, reply'[u].version)
    BY <1>7, <1>9 DEF Inductive, Told
  <2>2. /\ \A u \in Runs : pc'[u] = "releasing" /\ Success(reply'[u].answer) => "release" \in carriedOut[u]
        /\ \A u \in Runs : pc'[u] = "upserting" /\ DoErr(reply'[u].answer).nil => "upsert" \in carriedOut[u]
    BY <1>7, <1>9 DEF Inductive, Told
  <2>3. \A u \in Runs : pc'[u] \in {"created", "releasing"} => VersionOf(u, version'[u])
    BY <1>7, <1>9 DEF Inductive, Told
  <2>4. \A u \in Runs : said'[u] # NoVersion => org[u] # NoOrg /\ VersionOf(u, said'[u])
    BY <1>3, <1>7, <1>9 DEF Inductive, Told
  <2>5. ASSUME NEW u \in Runs, code'[u] = 0, args[u] # NoArgs
        PROVE  /\ args[u].task = "instruction" => VersionOf(u, said'[u])
               /\ u \notin misled' =>
                    (IF args[u].task = "agent" THEN "upsert" ELSE "release") \in carriedOut[u]
    <3>1. CASE u # r
      BY <1>7, <2>5, <3>1 DEF Inductive, Told, ExitZeroIsTrue
    <3>2. CASE u = r /\ pc[r] = "releasing"
      BY <1>9, <2>5, <3>2 DEF Inductive, Told, Staged
    <3>3. CASE u = r /\ pc[r] # "releasing"
      BY <1>9, <2>5, <3>3 DEF Inductive, Staged, NoCode
    <3> QED
      BY <3>1, <3>2, <3>3
  <2> QED
    BY <2>1, <2>2, <2>3, <2>4, <2>5 DEF Told, ExitZeroIsTrue, VersionOf
<1>15. Once'
  <2>1. \A u \in Runs : code[u] = 0 => code'[u] = 0
    BY <1>3, <1>7 DEF NoCode
  <2>2. \A u \in Runs : \A w \in before[u] : code'[w] = 0
    BY <2>1 DEF Inductive, TypeOK, Once
  <2>3. \A u \in Runs : Last(u)' => Last(u)
    BY DEF Last
  <2>4. \A u \in Runs : "release" \in carriedOut[u] => version'[u] = version[u]
    BY <1>12 DEF Asked
  <2> QED
    BY <2>2, <2>3, <2>4 DEF Inductive, Once
<1> QED
  BY <1>6, <1>10, <1>13, <1>14, <1>15 DEF Inductive

\* Whatever passes for an answer of the cloud misleads the run.
LEMMA ForCloudStep ==
  ASSUME Inductive, NEW r \in Runs, AnsweredForCloud(r) \/ FollowedAsRead(r)
  PROVE  Inductive'
<1>1. \E x \in Exchange : (pc[r] = "creating" => ~DoErr(x).nil) /\ EndsForCloud(r, x)
  <2>1. CASE AnsweredForCloud(r)
    BY <2>1, NotForCloud DEF AnsweredForCloud
  <2>2. CASE FollowedAsRead(r)
    <3>1. PICK body \in {"good", "bad"} :
            (pc[r] = "creating" => body = "bad") /\ EndsForCloud(r, Reply(200, body))
      BY <2>2 DEF FollowedAsRead
    <3>2. Reply(200, body) \in Exchange
      BY DEF Reply, Exchange, Causes, Bodies
    <3>3. body = "bad" => ~DoErr(Reply(200, body)).nil
      BY DEF Reply, DoErr, TransportError, StatusError, Malformed, NoError
    <3> QED
      BY <3>1, <3>2, <3>3
  <2> QED
    BY <2>1, <2>2
<1>2. PICK x \in Exchange : (pc[r] = "creating" => ~DoErr(x).nil) /\ EndsForCloud(r, x)
  BY <1>1
<1>3. /\ pc[r] \in Calling /\ Ends(r, x, NoVersion)
      /\ UNCHANGED <<cloudVars, wire, args, text, org, resent, before>>
      /\ misled' = IF PassesForCloud(r, x) THEN misled \cup {r} ELSE misled
  BY <1>2 DEF AnsweredForCloud, FollowedAsRead, EndsForCloud
<1>4. misled \subseteq misled' /\ misled' \subseteq Runs
  BY <1>3 DEF Inductive, TypeOK
<1>5. DoErr(x).nil => Success(x) /\ x.body = "good"
  BY DEF DoErr, TransportError, StatusError, Malformed, NoError
<1>6. /\ pc[r] = "releasing" /\ Success(x) => r \in misled'
      /\ pc[r] = "upserting" /\ DoErr(x).nil => r \in misled'
  BY <1>3, <1>5 DEF PassesForCloud
<1> QED
  BY <1>2, <1>3, <1>4, <1>6, EndsStep

LEMMA KilledStep ==
  ASSUME Inductive, NEW r \in Runs, Killed(r)
  PROVE  Inductive'
<1> USE DEF cloudVars
<1>1. /\ pc[r] # "ended" /\ pc'[r] = "ended" /\ \A u \in Runs \ {r} : pc'[u] = pc[u]
      /\ code[r] = NoCode
      /\ UNCHANGED <<cloudVars, wire, reply, args, text, org, version, code, said, resent, misled, before>>
  BY DEF Killed, Goes, Inductive, TypeOK, Staged
<1>2. TypeOK'
  BY DEF Killed, Goes, Inductive, TypeOK
<1>3. Staged'
  BY <1>1 DEF Inductive, Staged, Early, Calling
<1>4. \A u \in Runs, w \in VersionIds \cup {NoVersion} : VersionOf(u, w)' <=> VersionOf(u, w)
  BY <1>1 DEF VersionOf
<1>5. Requested'
  <2>1. \A u \in Runs, o \in Operations : Asked(u, o)' <=> Asked(u, o)
    BY <1>1 DEF Asked
  <2>2. \A u \in Runs, o \in Operations : Asked(u, o) => org[u] # NoOrg /\ pc'[u] \notin Early \cup {"ready"}
    BY <1>1 DEF Inductive, Requested, Early
  <2>3. \A u \in Runs : Asked(u, "release") => pc'[u] \in {"releasing", "ended"}
    BY <1>1 DEF Inductive, Requested
  <2> QED
    BY <1>1, <2>1, <2>2, <2>3 DEF Inductive, Requested, VersionOf, Operations
<1>6. Told'
  BY <1>1 DEF Inductive, Told, ExitZeroIsTrue, VersionOf
<1>7. Once'
  BY <1>1 DEF Inductive, Once, Last
<1> QED
  BY <1>2, <1>3, <1>5, <1>6, <1>7 DEF Inductive

-----------------------------------------------------------------------------
(* The cloud handles a request. *)

LEMMA CloudStep ==
  ASSUME Inductive, TypeOK', NEW q \in wire, wire' = wire \ {q},
         UNCHANGED <<accessible, local, resent, misled, before>>,
         \A w \in VersionIds : versions[w] # Free => versions'[w] = versions[w],
         \/ UNCHANGED <<carriedOut, released>>
         \/ /\ carriedOut' = [carriedOut EXCEPT ![q.run] = @ \cup {q.op}]
            /\ org[q.run] \in accessible
            /\ IF q.op = "release" THEN released' = [released EXCEPT ![org[q.run]] = q.version]
               ELSE UNCHANGED released,
         \A u \in Runs : reply'[u] # reply[u] =>
           /\ u = q.run /\ pc[u] = CallOf(q.op)
           /\ DoErr(reply'[u].answer).nil \/ Success(reply'[u].answer) =>
                q.op \in carriedOut'[u] /\ (q.op = "create" => VersionOf(u, reply[u].version)')
  PROVE  Inductive'
<1> USE DEF local
<1> DEFINE r == q.run
<1>1. r \in Runs /\ q.op \in Operations /\ Asked(r, q.op)
  BY DEF Inductive, TypeOK, Asked
<1>2. org[r] # NoOrg /\ pc[r] \notin Early \cup {"ready"}
  BY <1>1 DEF Inductive, Requested
<1>3. \A u \in Runs, o \in Operations : o \in carriedOut'[u] <=>
        o \in carriedOut[u] \/ (u = r /\ o = q.op /\ carriedOut' # carriedOut)
  <2>1. CASE UNCHANGED carriedOut
    BY <2>1
  <2>2. CASE carriedOut' = [carriedOut EXCEPT ![q.run] = @ \cup {q.op}]
    <3>1. carriedOut' # carriedOut \/ q.op \in carriedOut[r]
      BY <1>1, <2>2 DEF Inductive, TypeOK
    <3> QED
      BY <1>1, <2>2, <3>1 DEF Inductive, TypeOK
  <2> QED
    BY <2>1, <2>2
<1>4. \A u \in Runs, o \in Operations : Asked(u, o)' => Asked(u, o)
  BY <1>1, <1>3 DEF Asked
<1>5. \A u \in Runs, w \in VersionIds \cup {NoVersion} : org[u] # NoOrg /\ VersionOf(u, w) => VersionOf(u, w)'
  BY VersionKept
<1>6. pc[r] \in Early \cup {"ready", "created"} => reply'[r] = reply[r]
  BY <1>1 DEF CallOf, Operations, Early
<1>7. Staged'
  BY <1>6 DEF Inductive, Staged
<1>8. Requested'
  <2>1. \A u \in Runs : Asked(u, "release")' => VersionOf(u, version[u])'
    <3>1. \A u \in Runs : version[u] \in VersionIds \cup {NoVersion}
      BY DEF Inductive, TypeOK
    <3> QED
      BY <1>4, <1>5, <3>1 DEF Inductive, Requested, Operations
  <2>2. \A u \in Runs : carriedOut'[u] # {} => org[u] \in accessible
    BY <1>1 DEF Inductive, TypeOK, Requested
  <2> QED
    BY <1>4, <2>1, <2>2 DEF Inductive, Requested, Operations, VersionOf
<1>9. \A u \in Runs : carriedOut[u] \subseteq carriedOut'[u]
  BY DEF Inductive, TypeOK
<1>10. Told'
  <2>1. ASSUME NEW u \in Runs, pc[u] = "creating", DoErr(reply'[u].answer).nil
        PROVE  VersionOf(u, reply[u].version)'
    <3>1. CASE reply'[u] # reply[u]
      BY <1>1, <2>1, <3>1 DEF CallOf, Operations
    <3>2. CASE reply'[u] = reply[u]
      <4>1. VersionOf(u, reply[u].version) /\ org[u] # NoOrg
        BY <2>1, <3>2 DEF Inductive, Told, Staged, Calling
      <4>2. reply[u].version \in VersionIds \cup {NoVersion}
        BY DEF Inductive, TypeOK
      <4> QED
        BY <1>5, <3>2, <4>1, <4>2 DEF VersionOf
    <3> QED
      BY <3>1, <3>2
  <2>2. ASSUME NEW u \in Runs
        PROVE  /\ pc[u] = "releasing" /\ Success(reply'[u].answer) => "release" \in carriedOut'[u]
               /\ pc[u] = "upserting" /\ DoErr(reply'[u].answer).nil => "upsert" \in carriedOut'[u]
    <3>1. CASE reply'[u] # reply[u]
      BY <1>1, <3>1 DEF CallOf, Operations
    <3>2. CASE reply'[u] = reply[u]
      BY <1>9, <3>2 DEF Inductive, Told
    <3> QED
      BY <3>1, <3>2
  <2>3. \A u \in Runs : version[u] \in VersionIds \cup {NoVersion} /\ said[u] \in VersionIds \cup {NoVersion}
    BY DEF Inductive, TypeOK
  <2>4. \A u \in Runs : pc[u] \in {"created", "releasing"} => VersionOf(u, version[u])'
    BY <1>5, <2>3 DEF Inductive, Told, Staged, Calling
  <2>5. \A u \in Runs : said[u] # NoVersion => org[u] # NoOrg /\ VersionOf(u, said[u])'
    BY <1>5, <2>3 DEF Inductive, Told
  <2>6. ASSUME NEW u \in Runs, code[u] = 0, args[u] # NoArgs
        PROVE  /\ args[u].task = "instruction" => VersionOf(u, said[u])'
               /\ u \notin misled =>
                    (IF args[u].task = "agent" THEN "upsert" ELSE "release") \in carriedOut'[u]
    <3>1. ASSUME args[u].task = "instruction" PROVE VersionOf(u, said[u])'
      <4>1. VersionOf(u, said[u])
        BY <2>6, <3>1 DEF Inductive, Told, ExitZeroIsTrue
      <4> QED
        BY <2>5, <4>1, NamesAssumption DEF VersionOf
    <3> QED
      BY <1>9, <2>6, <3>1 DEF Inductive, Told, ExitZeroIsTrue
  <2> QED
    BY <2>1, <2>2, <2>4, <2>5, <2>6 DEF Told, ExitZeroIsTrue, VersionOf
<1>11. Once'
  \* A copy of a release under way is the same request.
  <2>1. ASSUME NEW p \in wire', p.op = "release", p.run \notin resent
        PROVE  "release" \notin carriedOut'[p.run]
    <3>1. p \in wire /\ p # q /\ p.run \in Runs /\ "release" \notin carriedOut[p.run]
      BY <2>1 DEF Inductive, TypeOK, Once
    <3>2. ASSUME p.run = r, q.op = "release" PROVE FALSE
      <4>1. p.version = q.version
        BY <2>1, <3>1, <3>2 DEF Inductive, Requested
      <4>2. /\ p \in [run : Runs, op : Operations, version : VersionIds \cup {NoVersion}]
            /\ q \in [run : Runs, op : Operations, version : VersionIds \cup {NoVersion}]
        BY <3>1 DEF Inductive, TypeOK
      <4> QED
        BY <2>1, <3>1, <3>2, <4>1, <4>2
    <3> QED
      BY <1>3, <3>1, <3>2 DEF Operations
  <2>2. ASSUME NEW u \in Runs, "release" \in carriedOut'[u], Last(u)
        PROVE  released'[org[u]] = version[u]
    <3>1. org[u] \in Orgs /\ org[r] \in Orgs
      <4>1. org[u] # NoOrg
        BY <1>4, <2>2 DEF Asked, Inductive, Requested, Operations
      <4> QED
        BY <1>1, <1>2, <4>1 DEF Inductive, TypeOK
    <3>2. CASE UNCHANGED <<carriedOut, released>>
      BY <2>2, <3>2 DEF Inductive, Once
    <3>3. CASE carriedOut' = [carriedOut EXCEPT ![q.run] = @ \cup {q.op}] /\ q.op # "release" /\ UNCHANGED released
      <4>1. "release" \in carriedOut[u]
        BY <1>3, <2>2, <3>3 DEF Operations
      <4> QED
        BY <2>2, <3>3, <4>1 DEF Inductive, Once
    <3>4. CASE q.op = "release" /\ released' = [released EXCEPT ![org[q.run]] = q.version]
      <4>1. q.version = version[r]
        BY <3>4 DEF Inductive, Requested
      <4>2. CASE u = r
        BY <3>1, <3>4, <4>1, <4>2 DEF Inductive, TypeOK
      <4>3. CASE u # r
        <5>1. "release" \in carriedOut[u]
          BY <1>3, <2>2, <4>3 DEF Operations
        <5>2. ASSUME org[r] = org[u] PROVE FALSE
          <6>1. r \in before[u] /\ r \notin resent \cup misled
            BY <1>1, <2>2, <4>3, <5>2 DEF Last
          <6>2. code[r] = 0
            BY <6>1 DEF Inductive, Once
          <6>3. args[r].task = "instruction"
            BY <1>1, <3>4 DEF Inductive, Requested
          <6>4. "release" \in carriedOut[r]
            BY <1>1, <6>1, <6>2, <6>3 DEF Inductive, Told, ExitZeroIsTrue, NoArgs
          <6> QED
            BY <3>4, <6>1, <6>4 DEF Inductive, Once
        <5>3. released'[org[u]] = released[org[u]]
          BY <3>1, <3>4, <5>2 DEF Inductive, TypeOK
        <5> QED
          BY <2>2, <5>1, <5>3 DEF Inductive, Once
      <4> QED
        BY <4>2, <4>3
    <3> QED
      BY <3>2, <3>3, <3>4
  <2> QED
    BY <2>1, <2>2 DEF Inductive, Once, Last
<1> QED
  BY <1>7, <1>8, <1>10, <1>11 DEF Inductive

\* An answer of the cloud to q that names version v.
LEMMA AnswerTyped ==
  ASSUME TypeOK, NEW q \in wire, NEW status \in {200, 201, 403}, NEW body \in {"good", "none"},
         NEW v \in VersionIds \cup {NoVersion}, Answer(q, Reply(status, body), v)
  PROVE  /\ reply' \in [Runs -> [answer : Exchange, version : VersionIds \cup {NoVersion}]]
         /\ \A u \in Runs : reply'[u] # reply[u] =>
              /\ u = q.run /\ pc[u] = CallOf(q.op)
              /\ reply'[u] = [answer |-> Reply(status, body), version |-> v]
<1>1. Reply(status, body) \in Exchange
  BY DEF Reply, Exchange, Causes, Bodies
<1> QED
  BY <1>1 DEF TypeOK, Answer

LEMMA HandlesStep ==
  ASSUME Inductive, NEW q \in wire, Handles(q)
  PROVE  Inductive'
<1> DEFINE r == q.run
<1>1. /\ r \in Runs /\ q.op \in Operations /\ wire' = wire \ {q}
      /\ UNCHANGED <<accessible, local, resent, misled, before>>
  BY DEF Handles, Inductive, TypeOK
<1>2. carriedOut' = [carriedOut EXCEPT ![r] = @ \cup {q.op}] =>
        q.op \in carriedOut'[r] /\ carriedOut' \in [Runs -> SUBSET Operations]
  BY <1>1 DEF Inductive, TypeOK
<1>3. 200 \in {200, 201, 403} /\ 201 \in {200, 201, 403} /\ 403 \in {200, 201, 403}
      /\ "good" \in {"good", "none"} /\ "none" \in {"good", "none"}
      /\ NoVersion \in VersionIds \cup {NoVersion} /\ TypeOK
  BY DEF Inductive
<1>4. org[r] # NoOrg /\ org[r] \in Orgs
  BY <1>1 DEF Inductive, Requested, Asked, TypeOK
<1>5. CASE HandlesCreate(q)
  <2>1. PICK v \in VersionIds :
          /\ versions[v] = Free
          /\ versions' = [versions EXCEPT ![v] = [org |-> org[r], text |-> text[r], run |-> r]]
          /\ Answer(q, Reply(201, "good"), v)
    BY <1>5 DEF HandlesCreate
  <2>2. /\ q.op = "create" /\ org[r] \in accessible /\ UNCHANGED released
        /\ carriedOut' = [carriedOut EXCEPT ![r] = @ \cup {q.op}]
    BY <1>5 DEF HandlesCreate, CarriesOut
  <2>3. \A w \in VersionIds : versions[w] # Free => versions'[w] = versions[w]
    BY <2>1 DEF Inductive, TypeOK
  <2> DEFINE answer == [answer |-> Reply(201, "good"), version |-> v]
  <2>4. /\ reply' \in [Runs -> [answer : Exchange, version : VersionIds \cup {NoVersion}]]
        /\ \A u \in Runs : reply'[u] # reply[u] =>
             u = q.run /\ pc[u] = CallOf(q.op) /\ reply'[u] = answer
    BY <1>3, <2>1, AnswerTyped
  <2>5. \A u \in Runs : reply'[u] # reply[u] => u = r /\ pc[u] = CallOf(q.op) /\ reply'[u].version = v
    BY <2>4
  <2>6. text[r] \in Texts
    BY <1>1, <2>2 DEF Inductive, Requested, Asked
  <2>7. TypeOK'
    BY <1>1, <1>2, <1>4, <2>1, <2>2, <2>4, <2>6 DEF Inductive, TypeOK, Versions, local
  <2> HIDE DEF answer
  <2>8. VersionOf(r, v)'
    BY <1>1, <2>1 DEF VersionOf, local, Inductive, TypeOK
  <2>9. \A u \in Runs : reply'[u] # reply[u] =>
          u = r /\ pc[u] = CallOf(q.op) /\ VersionOf(u, reply[u].version)'
    BY <2>5, <2>8 DEF VersionOf
  <2> QED
    BY <1>1, <1>2, <2>2, <2>3, <2>7, <2>9, CloudStep

<1>6. CASE HandlesRelease(q)
  <2>1. /\ q.op = "release" /\ q.version \in VersionIds /\ org[r] \in accessible
        /\ released' = [released EXCEPT ![org[r]] = q.version] /\ UNCHANGED versions
        /\ carriedOut' = [carriedOut EXCEPT ![r] = @ \cup {q.op}]
        /\ Answer(q, Reply(200, "good"), NoVersion)
    BY <1>6 DEF HandlesRelease, CarriesOut
  <2> DEFINE answer == [answer |-> Reply(200, "good"), version |-> NoVersion]
  <2>2. /\ reply' \in [Runs -> [answer : Exchange, version : VersionIds \cup {NoVersion}]]
        /\ \A u \in Runs : reply'[u] # reply[u] =>
             u = q.run /\ pc[u] = CallOf(q.op) /\ reply'[u] = answer
    BY <1>3, <2>1, AnswerTyped
  <2>3. \A u \in Runs : reply'[u] # reply[u] => u = r /\ pc[u] = CallOf(q.op)
    BY <2>2
  <2>4. TypeOK'
    BY <1>1, <1>2, <2>1, <2>2 DEF Inductive, TypeOK, local
  <2> QED
    BY <1>1, <1>2, <2>1, <2>3, <2>4, CloudStep
<1>7. CASE HandlesUpsert(q)
  <2>1. /\ q.op = "upsert" /\ org[r] \in accessible /\ UNCHANGED <<versions, released>>
        /\ carriedOut' = [carriedOut EXCEPT ![r] = @ \cup {q.op}]
        /\ Answer(q, Reply(200, "good"), NoVersion)
    BY <1>7 DEF HandlesUpsert, CarriesOut
  <2> DEFINE answer == [answer |-> Reply(200, "good"), version |-> NoVersion]
  <2>2. /\ reply' \in [Runs -> [answer : Exchange, version : VersionIds \cup {NoVersion}]]
        /\ \A u \in Runs : reply'[u] # reply[u] =>
             u = q.run /\ pc[u] = CallOf(q.op) /\ reply'[u] = answer
    BY <1>3, <2>1, AnswerTyped
  <2>3. \A u \in Runs : reply'[u] # reply[u] => u = r /\ pc[u] = CallOf(q.op)
    BY <2>2
  <2>4. TypeOK'
    BY <1>1, <1>2, <2>1, <2>2 DEF Inductive, TypeOK, local
  <2> QED
    BY <1>1, <1>2, <2>1, <2>3, <2>4, CloudStep
<1>8. CASE Refuses(q)
  <2>1. UNCHANGED <<versions, released, carriedOut>> /\ Answer(q, Reply(403, "none"), NoVersion)
    BY <1>8 DEF Refuses
  <2> DEFINE answer == [answer |-> Reply(403, "none"), version |-> NoVersion]
  <2>2. /\ reply' \in [Runs -> [answer : Exchange, version : VersionIds \cup {NoVersion}]]
        /\ \A u \in Runs : reply'[u] # reply[u] =>
             u = q.run /\ pc[u] = CallOf(q.op) /\ reply'[u] = answer
    BY <1>3, <2>1, AnswerTyped
  <2>3. Reply(403, "none").reply /\ ~Success(Reply(403, "none"))
    BY DEF Reply, Success
  <2>4. ~DoErr(Reply(403, "none")).nil
    BY <2>3 DEF DoErr, StatusError, NoError
  <2>5. \A u \in Runs : reply'[u] # reply[u] =>
          /\ u = r /\ pc[u] = CallOf(q.op)
          /\ ~DoErr(reply'[u].answer).nil /\ ~Success(reply'[u].answer)
    BY <2>2, <2>3, <2>4
  <2>6. TypeOK'
    BY <1>1, <2>1, <2>2 DEF Inductive, TypeOK, local
  <2> QED
    BY <1>1, <2>1, <2>5, <2>6, CloudStep
<1> QED
  BY <1>5, <1>6, <1>7, <1>8 DEF Handles

-----------------------------------------------------------------------------
LEMMA InductiveStep == Inductive /\ [Next]_vars => Inductive'
<1> SUFFICES ASSUME Inductive, [Next]_vars PROVE Inductive'
  OBVIOUS
<1>1. ASSUME NEW r \in Runs,
             \/ BadUsage(r) \/ ShowsHelp(r) \/ Begins(r) \/ NoClient(r) \/ NewClient(r)
             \/ ResolvesOrg(r) \/ PrincipalFails(r)
      PROVE  Inductive'
  BY <1>1, BeforeClient, PrincipalStep
<1>2. ASSUME NEW r \in Runs, Dispatch(r) PROVE Inductive'
  BY <1>2, SendsStep DEF Dispatch, Goes
<1>3. ASSUME NEW r \in Runs, Receives(r) PROVE Inductive'
  <2>1. reply[r].answer \in Exchange /\ reply[r].version \in VersionIds \cup {NoVersion}
    BY DEF Inductive, TypeOK
  <2>2. /\ pc[r] = "creating" /\ DoErr(reply[r].answer).nil => VersionOf(r, reply[r].version)
        /\ pc[r] = "releasing" /\ Success(reply[r].answer) => "release" \in carriedOut[r]
        /\ pc[r] = "upserting" /\ DoErr(reply[r].answer).nil => "upsert" \in carriedOut[r]
    BY DEF Inductive, Told
  <2> QED
    BY <1>3, <2>1, <2>2, EndsStep DEF Receives, Inductive, TypeOK
<1>4. ASSUME NEW r \in Runs, AnsweredForCloud(r) \/ FollowedAsRead(r) PROVE Inductive'
  BY <1>4, ForCloudStep
<1>5. ASSUME NEW r \in Runs, SentAgain(r) PROVE Inductive'
  BY <1>5, SendsStep DEF SentAgain, local
<1>6. ASSUME NEW r \in Runs, Killed(r) PROVE Inductive'
  BY <1>6, KilledStep
<1>7. ASSUME NEW q \in wire, Handles(q) PROVE Inductive'
  BY <1>7, HandlesStep
<1>8. ASSUME UNCHANGED vars PROVE Inductive'
  <2> USE <1>8 DEF vars, cloudVars, local
  <2>1. TypeOK' /\ Staged'
    BY DEF Inductive, TypeOK, Staged
  <2>2. Requested'
    BY DEF Inductive, Requested, Asked, VersionOf
  <2>3. Told'
    BY DEF Inductive, Told, ExitZeroIsTrue, VersionOf
  <2>4. Once'
    BY DEF Inductive, Once, Last
  <2> QED
    BY <2>1, <2>2, <2>3, <2>4 DEF Inductive
<1> QED
  BY <1>1, <1>2, <1>3, <1>4, <1>5, <1>6, <1>7, <1>8 DEF Next

LEMMA InductiveInvariant == Spec => []Inductive
  BY InductiveInit, InductiveStep, PTL DEF Spec

(***************************************************************************)
(* The state of the runs, of the network and of the cloud.                 *)
(***************************************************************************)
THEOREM CliTyped == Spec => []TypeOK
<1>1. Inductive => TypeOK
  BY DEF Inductive
<1> QED
  BY <1>1, InductiveInvariant, PTL

(***************************************************************************)
(* A command that exits with 0 has done what it was asked to, unless the   *)
(* run was misled, by a 2xx that was not the cloud's.                      *)
(***************************************************************************)
THEOREM ExitCodeTrue == Spec => []ExitZeroIsTrue
<1>1. Inductive => ExitZeroIsTrue
  BY DEF Inductive, Told
<1> QED
  BY <1>1, InductiveInvariant, PTL

(***************************************************************************)
(* A failure that names a version names one that can be released by hand,  *)
(* and one that names none has released none.                              *)
(***************************************************************************)
THEOREM FailureInformative == Spec => []FailureNamesVersion
<1>1. Inductive => FailureNamesVersion
  <2> SUFFICES ASSUME Inductive, NEW r \in Runs, code[r] = 1
               PROVE  IF said[r] # NoVersion THEN VersionOf(r, said[r])
                      ELSE "release" \notin carriedOut[r]
    BY DEF FailureNamesVersion
  <2>1. ASSUME "release" \in carriedOut[r] PROVE said[r] # NoVersion
    <3>1. VersionOf(r, version[r]) /\ said[r] = version[r]
      BY <2>1 DEF Inductive, Requested, Asked, NoCode
    <3> QED
      BY <3>1, NamesAssumption DEF VersionOf
  <2> QED
    BY <2>1 DEF Inductive, Told
<1> QED
  BY <1>1, InductiveInvariant, PTL

(***************************************************************************)
(* Nothing is done in an organization that was neither named nor alone.    *)
(***************************************************************************)
THEOREM OrgUnambiguous == Spec => []OrgNamedOrSole
<1>1. Inductive => OrgNamedOrSole
  <2> SUFFICES ASSUME Inductive, NEW r \in Runs, carriedOut[r] # {}
               PROVE  org[r] \in accessible /\ (org[r] = args[r].org \/ accessible = {org[r]})
    BY DEF OrgNamedOrSole
  <2>1. org[r] \in accessible /\ accessible \subseteq Orgs
    BY DEF Inductive, Requested, TypeOK
  <2>2. org[r] # NoOrg
    BY <2>1, NamesAssumption
  <2> QED
    BY <2>1, <2>2 DEF Inductive, Staged
<1> QED
  BY <1>1, InductiveInvariant, PTL

(***************************************************************************)
(* The version of the last run to begin and to exit with 0 is in force, if *)
(* neither it nor another run of its organization was misled.              *)
(***************************************************************************)
THEOREM LastRunKept == Spec => []LastRunStands
<1>1. Inductive => LastRunStands
  <2> SUFFICES ASSUME Inductive, NEW r \in Runs, code[r] = 0, args[r].task = "instruction",
                      r \notin misled,
                      \A u \in Runs \ {r} : org[u] = org[r] => u \in before[r] /\ u \notin resent \cup misled
               PROVE  released[org[r]] = said[r]
    BY DEF LastRunStands
  <2>1. "release" \in carriedOut[r]
    BY DEF Inductive, Told, ExitZeroIsTrue, NoArgs
  <2>2. said[r] = version[r]
    BY <2>1 DEF Inductive, Requested, Asked, NoCode
  <2> QED
    BY <2>1, <2>2 DEF Inductive, Once, Last
<1> QED
  BY <1>1, InductiveInvariant, PTL

\* Nobody but the cloud answers with a 2xx, and no redirect becomes a GET.
OnlyCloudSucceeds == \A x \in Answers : ~Success(x) /\ ~RedirectedAsRead(x)

NoneMisled == misled = {}

\* Misled by others, that is, or not at all.
LEMMA OnlyOthersMislead == ASSUME OnlyCloudSucceeds PROVE Spec => []NoneMisled
<1>1. Init => NoneMisled
  BY DEF Init, NoneMisled
<1>2. NoneMisled /\ [Next]_vars => NoneMisled'
  <2> SUFFICES ASSUME NoneMisled, [Next]_vars, misled' # misled PROVE FALSE
    BY DEF NoneMisled
  <2>1. PICK r \in Runs : AnsweredForCloud(r) \/ FollowedAsRead(r)
    BY DEF Next, vars, BadUsage, ShowsHelp, Begins, NoClient, NewClient, ResolvesOrg, PrincipalFails,
           Dispatch, Receives, Killed, SentAgain, Handles
  <2>2. ~FollowedAsRead(r)
    BY DEF FollowedAsRead, OnlyCloudSucceeds
  <2>3. PICK x \in Answers : EndsForCloud(r, x)
    BY <2>1, <2>2 DEF AnsweredForCloud
  <2> QED
    BY <2>3 DEF EndsForCloud, PassesForCloud, OnlyCloudSucceeds
<1> QED
  BY <1>1, <1>2, PTL DEF Spec

\* Exit code 0 of a command means that it was carried out, without exception.
ZeroMeansDone ==
  \A r \in Runs : code[r] = 0 /\ args[r] # NoArgs =>
    IF args[r].task = "agent" THEN "upsert" \in carriedOut[r]
    ELSE VersionOf(r, said[r]) /\ "release" \in carriedOut[r]

(***************************************************************************)
(* Where nobody but the cloud answers with a 2xx or with a redirect that   *)
(* becomes a GET, exit code 0 always means that the agent was set or the   *)
(* version of the output released.                                         *)
(***************************************************************************)
THEOREM AlwaysTold == ASSUME OnlyCloudSucceeds PROVE Spec => []ZeroMeansDone
<1>1. Inductive /\ NoneMisled => ZeroMeansDone
  BY DEF Inductive, TypeOK, Told, ExitZeroIsTrue, NoneMisled, ZeroMeansDone, Args
<1>2. Spec => []NoneMisled
  BY OnlyOthersMislead
<1> QED
  BY <1>1, <1>2, InductiveInvariant, PTL
=============================================================================
