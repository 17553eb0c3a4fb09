----------------------- MODULE CoreInterceptorsProofs -----------------------
(***************************************************************************)
(* The secrets and the owners that the core interceptors rely on, for any  *)
(* requests on any number of connections, any secrets and any GitHub.      *)
(***************************************************************************)
EXTENDS CoreInterceptors, SequenceTheorems, TLAPS

\* Zenon proves most leaves; those with arithmetic, or with large sets, name SMT
USE ZenonT(30)

-----------------------------------------------------------------------------
(* The inductive invariant *)

Fields == {"pc", "call", "start", "purpose", "ref", "value", "round", "page", "files",
           "members", "prs", "answer"}

AllCalls == UNION {UNION {LoadOf(l).calls[r] : r \in Request} : l \in Loads}

Known(s, v, t) == v \in Value /\ HeldSince(s, v, t)

\* What SecretIsFresh says of one request
Fresh(q) ==
    \A p \in Presented(Call(q)) : \E id \in Call(q).context :
        Known(CacheKey(ParseTriggerID(id), p[1]), p[2], q.start - TTL)

\* The owners check is the one that decides
Asks(c) ==
    /\ c.path = "github" /\ c.params.owners.enabled /\ ~c.params.changed.enabled
    /\ c.event \in ownersEventTypes

Says(c) == c.event = "issue_comment" => c.payload.okToTest

MayContinue(q) ==
    /\ Fresh(q)
    /\ Asks(Call(q)) => Call(q).payload.sender \in q.members /\ Says(Call(q))

\* The secret that is being got is the one of the request
Named(q) ==
    \A p \in Presented(Call(q)) : \E id \in Call(q).context :
        q.ref = CacheKey(ParseTriggerID(id), p[1])

Getting == {"cache", "fetch", "add"}

\* What the secret is for, and what has been found out before
Purposeful(q) ==
    \/ q.purpose = "signature" /\ Named(q) /\ Call(q).path \in {"github", "gitlab", "bitbucket"}
    \/ q.purpose = "compare" /\ Named(q) /\ Call(q).path = "cel"
    \/ q.purpose = "changed files" /\ Fresh(q) /\ ~Asks(Call(q))
    \/ q.purpose = "owners" /\ Fresh(q)

\* One of the checks of the owners check is under way
Checking(q) ==
    /\ Fresh(q)
    /\ q.round = 2 => Says(Call(q))
    /\ q.pc = "org" => CheckType(q) \in {"orgMembers", "all"}
    /\ q.pc = "repo" => CheckType(q) \in {"repoMembers", "all"}

\* How far the request is agrees with what it has found out
Sound(q) ==
    /\ q.pc \in Calling \cup {"idle", "cache", "add", "done"}
    /\ q.pc = "done" /\ q.answer.continue => MayContinue(q)
    /\ q.pc = "list" => Fresh(q) /\ ~Asks(Call(q))
    /\ q.pc \in {"org", "repo", "file"} => Checking(q)
    /\ q.pc \in Getting => Purposeful(q)
    /\ q.pc = "add" => Known(q.ref, q.value, now)

\* The members that a request has seen are those that GitHub now names, and others
Sees(q) == Approved(github, CheckType(q)) \subseteq q.members

SeesMembers(q) == q.pc \notin {"idle", "done"} => Sees(q)

Made(q) == DOMAIN q = Fields /\ q.start \in Nat /\ q.start <= now /\ q.call \in AllCalls

Types ==
    /\ load \in Loads
    /\ secrets \in [SecretRef -> Value \cup {NoValue}]
    /\ lost \in [SecretRef -> [Value -> Int]]
    /\ now \in Nat
    /\ DOMAIN reqs = Request

Entry == [key : SecretRef, value : Value, expires : Int]

\* An entry of the cache is what the secret held when the entry was made
EntrySound(e) == e.expires - TTL <= now /\ Known(e.key, e.value, e.expires - TTL)

SoundEntries == {e \in Entry : EntrySound(e)}

CacheSound == cache \in Seq(SoundEntries)

RequestOK(q) == Made(q) /\ Sound(q) /\ SeesMembers(q)

RequestsSound == \A r \in Request : reqs[r].pc = "idle" \/ RequestOK(reqs[r])

CoreInv == Types /\ CacheSound /\ RequestsSound

-----------------------------------------------------------------------------
(* The answers and the stages of one request *)

\* s is the same request as q, perhaps further on
Same(q, s) == DOMAIN s = Fields /\ s.call = q.call /\ s.start = q.start /\ s.members = q.members

LEMMA SameSound ==
    ASSUME NEW q, NEW s, Same(q, s)
    PROVE  /\ Made(q) => Made(s)
           /\ Fresh(q) => Fresh(s)
           /\ MayContinue(q) => MayContinue(s)
           /\ Sees(q) => Sees(s)
           /\ Call(s) = Call(q) /\ CheckType(s) = CheckType(q)
<1>1. Call(s) = Call(q) /\ CheckType(s) = CheckType(q)
  BY DEF Same, Call, CheckType
<1>2. Fresh(q) => Fresh(s)
  BY <1>1 DEF Fresh, Same
<1>3. MayContinue(q) => MayContinue(s)
  BY <1>1, <1>2 DEF MayContinue, Same
<1>4. Sees(q) => Sees(s)
  BY <1>1 DEF Sees, Same
<1>5. Made(q) => Made(s)
  BY DEF Made, Same
<1> QED BY <1>1, <1>2, <1>3, <1>4, <1>5

LEMMA DoneOK ==
    ASSUME NEW q, NEW s, Made(q), Same(q, s), s.pc = "done", s.answer.continue => MayContinue(q)
    PROVE  RequestOK(s)
BY SameSound DEF RequestOK, Sound, SeesMembers, Getting, Calling

LEMMA ContinueOK ==
    ASSUME NEW q, Made(q), MayContinue(q), NEW ext
    PROVE  RequestOK(Continue(q, ext))
<1> DEFINE s == Continue(q, ext)
<1>1. Same(q, s) /\ s.pc = "done"
  BY DEF Continue, Same, Made, Fields
<1> QED BY <1>1, DoneOK

LEMMA FailOK ==
    ASSUME NEW q, Made(q), NEW code
    PROVE  RequestOK(Fail(q, code))
<1> DEFINE s == Fail(q, code)
<1>1. Same(q, s) /\ s.pc = "done" /\ ~s.answer.continue
  BY DEF Fail, Same, Made, Fields
<1> HIDE DEF s
<1>2. RequestOK(s)
  BY <1>1, DoneOK
<1> QED BY <1>2 DEF s

LEMMA ServeErrorOK ==
    ASSUME NEW q, Made(q), NEW status
    PROVE  RequestOK(ServeError(q, status))
<1> DEFINE s == ServeError(q, status)
<1>1. Same(q, s) /\ s.pc = "done" /\ ~s.answer.continue
  BY DEF ServeError, Same, Made, Fields
<1> HIDE DEF s
<1>2. RequestOK(s)
  BY <1>1, DoneOK
<1> QED BY <1>2 DEF s

LEMMA UnlessOK ==
    ASSUME NEW q, Made(q), NEW checks, NEW next,
           (\A i \in DOMAIN checks : ~checks[i][1]) => RequestOK(next)
    PROVE  RequestOK(Unless(q, checks, next))
BY FailOK DEF Unless

\* A secret is asked for
LEMMA GetSecretOK ==
    ASSUME NEW q, Made(q), Sees(q), NEW purpose, NEW refs,
           Purposeful(GetSecret(q, purpose, refs))
    PROVE  RequestOK(GetSecret(q, purpose, refs))
<1> DEFINE s == GetSecret(q, purpose, refs)
<1>1. Same(q, s) /\ s.pc = "cache"
  BY DEF GetSecret, Same, Made, Fields
<1>2. Purposeful(s)
  OBVIOUS
<1> HIDE DEF s
<1>3. RequestOK(s)
  BY <1>1, <1>2, SameSound DEF RequestOK, Sound, SeesMembers, Getting, Calling
<1> QED BY <1>3 DEF s

\* A secret that is needed once the event is known to be signed
LEMMA GetTokenOK ==
    ASSUME NEW q, Made(q), Sees(q), Fresh(q), NEW refs, NEW purpose \in {"changed files", "owners"},
           purpose = "changed files" => ~Asks(Call(q))
    PROVE  RequestOK(GetSecret(q, purpose, refs))
<1> DEFINE s == GetSecret(q, purpose, refs)
<1>1. Same(q, s) /\ s.purpose = purpose
  BY DEF GetSecret, Same, Made, Fields
<1> HIDE DEF s
<1>2. Purposeful(s)
  BY <1>1, SameSound DEF Purposeful
<1> QED BY <1>2, GetSecretOK DEF s

LEMMA CheckOwnershipOK ==
    ASSUME NEW q, Made(q), Sees(q), Fresh(q), NEW round, round = 2 => Says(Call(q))
    PROVE  RequestOK(CheckOwnership(q, round))
<1> DEFINE s == CheckOwnership(q, round)
<1>1. Same(q, s) /\ s.round = round
  BY DEF CheckOwnership, Same, Made, Fields
<1>2. s.pc = IF CheckType(q) \in {"orgMembers", "all"} THEN "org"
             ELSE IF CheckType(q) = "repoMembers" THEN "repo" ELSE "file"
  BY DEF CheckOwnership, Made, Fields
<1> HIDE DEF s
<1>3. Checking(s)
  BY <1>1, <1>2, SameSound DEF Checking
<1>4. RequestOK(s)
  BY <1>1, <1>2, <1>3, SameSound DEF RequestOK, Sound, SeesMembers, Getting, Calling
<1> QED BY <1>4 DEF s

LEMMA CheckOwnersOK ==
    ASSUME NEW q, Made(q), Sees(q), Fresh(q)
    PROVE  RequestOK(CheckOwners(q))
BY FailOK, ServeErrorOK, CheckOwnershipOK, SMTT(30) DEF CheckOwners

LEMMA OwnedOK ==
    ASSUME NEW q, Made(q), Sees(q), Fresh(q), q.round = 2 => Says(Call(q)),
           NEW allowed \in BOOLEAN, allowed => Call(q).payload.sender \in q.members
    PROVE  RequestOK(Owned(q, allowed))
<1>1. ASSUME allowed, Says(Call(q)) PROVE RequestOK(Continue(q, NoExt))
  BY <1>1, ContinueOK DEF MayContinue
<1>2. RequestOK(okToTestFromAnOwner(q))
  BY FailOK, CheckOwnershipOK DEF okToTestFromAnOwner, Says
<1>3. Call(q).event = "pull_request" => Says(Call(q))
  BY DEF Says
<1> QED BY <1>1, <1>2, <1>3, FailOK DEF Owned

LEMMA AddChangedFilesOK ==
    ASSUME NEW q, Made(q), Sees(q), Fresh(q), ~Asks(Call(q))
    PROVE  RequestOK(AddChangedFiles(q))
<1> DEFINE s == [q EXCEPT !.pc = "list"]
<1>1. Same(q, s) /\ s.pc = "list"
  BY DEF Same, Made, Fields
<1> HIDE DEF s
<1>2. RequestOK(s)
  BY <1>1, SameSound DEF RequestOK, Sound, SeesMembers, Getting, Calling
<1>3. MayContinue(q)
  BY DEF MayContinue
<1> QED BY <1>2, <1>3, FailOK, ServeErrorOK, ContinueOK DEF AddChangedFiles, s

LEMMA ChangedFilesStageOK ==
    ASSUME NEW q, Made(q), Sees(q), Fresh(q), ~Asks(Call(q))
    PROVE  RequestOK(ChangedFilesStage(q))
<1>1. MayContinue(q)
  BY DEF MayContinue
<1>2. ASSUME NEW refs PROVE RequestOK(getGithubTokenSecret(q, refs))
  <2> DEFINE next == GetSecret(q, "changed files", refs)
  <2>1. RequestOK(next)
    BY GetTokenOK
  <2> HIDE DEF next
  <2>2. ASSUME NEW checks PROVE RequestOK(Unless(q, checks, next))
    BY <2>1, UnlessOK
  <2> QED BY <2>2, AddChangedFilesOK DEF getGithubTokenSecret, next
<1>3. ASSUME NEW checks, NEW refs PROVE RequestOK(Unless(q, checks, getGithubTokenSecret(q, refs)))
  BY <1>2, UnlessOK
<1> QED BY <1>1, <1>3, ContinueOK DEF ChangedFilesStage

LEMMA OwnersStageOK ==
    ASSUME NEW q, Made(q), Sees(q), Fresh(q)
    PROVE  RequestOK(OwnersStage(q))
<1>1. ASSUME Call(q).event \notin ownersEventTypes PROVE RequestOK(Continue(q, NoExt))
  BY <1>1, ContinueOK DEF MayContinue, Asks
<1>2. ASSUME NEW checks PROVE RequestOK(Unless(q, checks, CheckOwners(q)))
  BY CheckOwnersOK, UnlessOK
<1>3. ASSUME NEW checks, NEW refs PROVE RequestOK(Unless(q, checks, GetSecret(q, "owners", refs)))
  BY GetTokenOK, UnlessOK
<1> QED BY <1>1, <1>2, <1>3 DEF OwnersStage, getPersonalAccessTokenSecret

\* What follows a signature that is found to be good
LEMMA AfterSignatureOK ==
    ASSUME NEW q, Made(q), Sees(q), Fresh(q)
    PROVE  RequestOK(AfterSignature(q))
<1>1. CASE Call(q).params.changed.enabled
  BY <1>1, ChangedFilesStageOK DEF AfterSignature, Asks
<1>2. CASE ~Call(q).params.changed.enabled /\ Call(q).params.owners.enabled
  BY <1>2, OwnersStageOK DEF AfterSignature
<1>3. CASE ~Call(q).params.changed.enabled /\ ~Call(q).params.owners.enabled
  BY <1>3, ContinueOK DEF AfterSignature, MayContinue, Asks
<1> QED BY <1>1, <1>2, <1>3

LEMMA OverlaysOK ==
    ASSUME NEW q, Made(q), Fresh(q), Call(q).path = "cel"
    PROVE  RequestOK(Overlays(q))
<1>1. MayContinue(q)
  BY DEF MayContinue, Asks
<1>2. ASSUME NEW checks, NEW ext PROVE RequestOK(Unless(q, checks, Continue(q, ext)))
  BY <1>1, ContinueOK, UnlessOK
<1> QED BY <1>2 DEF Overlays

-----------------------------------------------------------------------------
(* Process: a secret that is asked for first is the one the trigger names *)

\* Secrets and filters are optional
LEMMA AtMostOne ==
    ASSUME NEW q, Made(q)
    PROVE  /\ \A a, b \in Call(q).params.secretRef : a = b
           /\ \A f, g \in Call(q).params.filter : f = g
BY CoreAssumption, SMTT(30) DEF Made, AllCalls, Call

LEMMA SignatureOK ==
    ASSUME NEW q, Made(q), Sees(q), Call(q).path \in {"github", "gitlab", "bitbucket"},
           Call(q).params.secretRef # {}, Call(q).context # {}
    PROVE  RequestOK(GetSecret(q, "signature", Call(q).params.secretRef))
<1> DEFINE id == CHOOSE i \in Call(q).context : TRUE
           sr == CHOOSE r \in Call(q).params.secretRef : TRUE
           s  == GetSecret(q, "signature", Call(q).params.secretRef)
<1>1. id \in Call(q).context /\ sr \in Call(q).params.secretRef
  OBVIOUS
<1>2. Same(q, s) /\ s.purpose = "signature" /\ s.ref = CacheKey(ParseTriggerID(id), sr)
  BY DEF GetSecret, Same, Made, Fields
<1>3. \A p \in Presented(Call(q)) : p[1] = sr
  <2>1. Presented(Call(q)) = {<<r, Call(q).signature>> : r \in Call(q).params.secretRef}
    BY DEF Presented
  <2>2. \A r \in Call(q).params.secretRef : r = sr
    BY <1>1, AtMostOne
  <2> HIDE DEF sr
  <2> QED BY <2>1, <2>2, SMTT(30)
<1> HIDE DEF s, id, sr
<1>4. Named(s)
  BY <1>1, <1>2, <1>3, SameSound DEF Named
<1>5. Purposeful(s)
  BY <1>2, <1>4, SameSound DEF Purposeful
<1> QED BY <1>5, GetSecretOK DEF s

LEMMA CompareOK ==
    ASSUME NEW q, Made(q), Sees(q), Call(q).path = "cel", Call(q).context # {},
           \E f \in Call(q).params.filter : "compare" \in DOMAIN f
    PROVE  RequestOK(GetSecret(q, "compare", {f.secretRef : f \in Call(q).params.filter}))
<1> DEFINE refs == {f.secretRef : f \in Call(q).params.filter}
           id == CHOOSE i \in Call(q).context : TRUE
           sr == CHOOSE r \in refs : TRUE
           s  == GetSecret(q, "compare", refs)
<1>1. id \in Call(q).context /\ sr \in refs
  OBVIOUS
<1>2. Same(q, s) /\ s.purpose = "compare" /\ s.ref = CacheKey(ParseTriggerID(id), sr)
  BY DEF GetSecret, Same, Made, Fields
<1>3. \A f \in Call(q).params.filter : f.secretRef = sr
  <2> HIDE DEF sr
  <2> QED BY <1>1, AtMostOne
<1>4. \A p \in Presented(Call(q)) : p[1] = sr
  <2>1. Presented(Call(q)) = {<<f.secretRef, f.compare>> : f \in {g \in Call(q).params.filter : "compare" \in DOMAIN g}}
    BY DEF Presented
  <2> HIDE DEF sr
  <2> QED BY <1>3, <2>1, SMTT(30)
<1> HIDE DEF s, id, sr
<1>5. Named(s)
  BY <1>1, <1>2, <1>4, SameSound DEF Named
<1>6. Purposeful(s)
  BY <1>2, <1>5, SameSound DEF Purposeful
<1> QED BY <1>6, GetSecretOK DEF s, refs

LEMMA ThirdOfLast ==
    ASSUME NEW S, NEW first \in Seq(S), NEW a, NEW b, NEW d
    PROVE  /\ Len(first) + 3 \in DOMAIN (first \o <<a, b, d>>)
           /\ (first \o <<a, b, d>>)[Len(first) + 3] = d
<1> DEFINE last == <<a, b, d>>
           T == S \cup {a, b, d}
<1>1. last \in Seq(T) /\ first \in Seq(T) /\ Len(last) = 3 /\ last[3] = d
  BY SMTT(30)
<1> HIDE DEF last, T
<1>2. Len(first) \in Nat
  BY SMTT(30)
<1>3. Len(first \o last) = Len(first) + Len(last) /\ first \o last \in Seq(T)
  BY <1>1, ConcatProperties, Zenon
<1>4. (first \o last)[Len(first) + 3] = last[3]
  BY <1>1, <1>2, ConcatProperties, SMTT(30)
<1> QED BY <1>1, <1>2, <1>3, <1>4, SMTT(30) DEF last

\* The last of the checks before a secret is asked for: there is a trigger
LEMMA SecretRefChecked ==
    ASSUME NEW c, NEW code, NEW S, NEW first \in Seq(S),
           \A i \in DOMAIN (first \o SecretRefChecks(c, code)) : ~(first \o SecretRefChecks(c, code))[i][1],
           c.params.secretRef # {}
    PROVE  c.context # {}
<1> DEFINE d == <<c.params.secretRef # {} /\ c.context = {}, "InvalidArgument">>
<1>1. PICK a, b : SecretRefChecks(c, code) = <<a, b, d>>
  BY Zenon DEF SecretRefChecks
<1>2. ~d[1]
  <2> HIDE DEF d
  <2>1. Len(first) + 3 \in DOMAIN (first \o <<a, b, d>>) /\ (first \o <<a, b, d>>)[Len(first) + 3] = d
    BY ThirdOfLast, SMTT(30)
  <2> QED BY <1>1, <2>1, Zenon
<1>3. d[1] <=> c.params.secretRef # {} /\ c.context = {}
  BY Zenon
<1> QED BY <1>2, <1>3

LEMMA NothingPresented ==
    ASSUME NEW q, Presented(Call(q)) = {}
    PROVE  Fresh(q)
BY DEF Fresh

\* The checks of a signature
LEMMA SignedOK ==
    ASSUME NEW q, Made(q), Sees(q), Call(q).path \in {"github", "gitlab", "bitbucket"},
           NEW S, NEW first \in Seq(S), NEW code, NEW next,
           Fresh(q) => RequestOK(next)
    PROVE  RequestOK(Unless(q, first \o SecretRefChecks(Call(q), code),
                            IF Call(q).params.secretRef = {} THEN next
                            ELSE GetSecret(q, "signature", Call(q).params.secretRef)))
<1> DEFINE checks == first \o SecretRefChecks(Call(q), code)
           then == IF Call(q).params.secretRef = {} THEN next
                   ELSE GetSecret(q, "signature", Call(q).params.secretRef)
<1>1. ASSUME \A i \in DOMAIN checks : ~checks[i][1] PROVE RequestOK(then)
  <2>1. CASE Call(q).params.secretRef = {}
    <3>1. Presented(Call(q)) = {}
      BY <2>1 DEF Presented
    <3> QED BY <2>1, <3>1, NothingPresented
  <2>2. CASE Call(q).params.secretRef # {}
    <3>1. Call(q).context # {}
      BY <1>1, <2>2, SecretRefChecked
    <3> QED BY <2>2, <3>1, SignatureOK
  <2> QED BY <2>1, <2>2
<1> HIDE DEF checks, then
<1>2. RequestOK(Unless(q, checks, then))
  BY <1>1, UnlessOK
<1> QED BY <1>2 DEF checks, then

LEMMA TuplesAreSeqs ==
    ASSUME NEW a, NEW b, NEW c
    PROVE  <<a, b, c>> \in Seq({a, b, c}) /\ <<a, b>> \in Seq({a, b})
BY SMTT(30)

LEMMA GithubProcessOK ==
    ASSUME NEW q, Made(q), Sees(q), Call(q).path = "github"
    PROVE  RequestOK(GithubProcess(q))
<1> DEFINE a == <<Call(q).form, "InvalidArgument">>
           b == <<~Call(q).paramsParse, "InvalidArgument">>
           c == <<NotAllowed(Call(q), Call(q).event), "FailedPrecondition">>
<1>1. GithubProcess(q) =
          Unless(q, <<a, b, c>> \o SecretRefChecks(Call(q), "FailedPrecondition"),
                 IF Call(q).params.secretRef = {} THEN AfterSignature(q)
                 ELSE GetSecret(q, "signature", Call(q).params.secretRef))
  BY Zenon DEF GithubProcess
<1> HIDE DEF a, b, c
<1>2. <<a, b, c>> \in Seq({a, b, c})
  BY TuplesAreSeqs
<1>3. Fresh(q) => RequestOK(AfterSignature(q))
  BY AfterSignatureOK
<1> QED BY <1>1, <1>2, <1>3, SignedOK

LEMMA UnaskedOK ==
    ASSUME NEW q, Made(q), Call(q).path # "github", NEW ext
    PROVE  Fresh(q) => RequestOK(Continue(q, ext))
BY ContinueOK DEF MayContinue, Asks

LEMMA GitlabProcessOK ==
    ASSUME NEW q, Made(q), Sees(q), Call(q).path = "gitlab"
    PROVE  RequestOK(GitlabProcess(q))
<1> DEFINE a == <<~Call(q).paramsParse, "InvalidArgument">>
           b == <<NotAllowed(Call(q), Call(q).event), "FailedPrecondition">>
<1>1. GitlabProcess(q) =
          Unless(q, <<a, b>> \o SecretRefChecks(Call(q), "InvalidArgument"),
                 IF Call(q).params.secretRef = {} THEN Continue(q, NoExt)
                 ELSE GetSecret(q, "signature", Call(q).params.secretRef))
  BY Zenon DEF GitlabProcess
<1> HIDE DEF a, b
<1>2. <<a, b>> \in Seq({a, b})
  BY TuplesAreSeqs
<1>3. Fresh(q) => RequestOK(Continue(q, NoExt))
  BY UnaskedOK
<1> QED BY <1>1, <1>2, <1>3, SignedOK

LEMMA BitbucketProcessOK ==
    ASSUME NEW q, Made(q), Sees(q), Call(q).path = "bitbucket"
    PROVE  RequestOK(BitbucketProcess(q))
<1> DEFINE a == <<~Call(q).paramsParse, "InvalidArgument">>
           b == <<NotAllowed(Call(q), IF Call(q).canonical THEN Call(q).event ELSE ""), "FailedPrecondition">>
<1>1. BitbucketProcess(q) =
          Unless(q, <<a, b>> \o SecretRefChecks(Call(q), "InvalidArgument"),
                 IF Call(q).params.secretRef = {} THEN Continue(q, NoExt)
                 ELSE GetSecret(q, "signature", Call(q).params.secretRef))
  BY Zenon DEF BitbucketProcess
<1> HIDE DEF a, b
<1>2. <<a, b>> \in Seq({a, b})
  BY TuplesAreSeqs
<1>3. Fresh(q) => RequestOK(Continue(q, NoExt))
  BY UnaskedOK
<1> QED BY <1>1, <1>2, <1>3, SignedOK

LEMMA SlackProcessOK ==
    ASSUME NEW q, Made(q), Call(q).path = "slack"
    PROVE  RequestOK(SlackProcess(q))
<1>1. Fresh(q)
  BY NothingPresented DEF Presented
<1>2. ASSUME NEW checks, NEW ext PROVE RequestOK(Unless(q, checks, Continue(q, ext)))
  BY <1>1, UnaskedOK, UnlessOK
<1> QED BY <1>2, Zenon DEF SlackProcess

LEMMA CelProcessOK ==
    ASSUME NEW q, Made(q), Sees(q), Call(q).path = "cel"
    PROVE  RequestOK(CelProcess(q))
<1> DEFINE Compares(f) == "compare" \in DOMAIN f
           env == makeEvalContext(Call(q))
           a == <<~Call(q).paramsParse, "InvalidArgument">>
           b == <<Call(q).payload.has \cap {"json", "empty"} = {}, "InvalidArgument">>
           c == <<\E f \in Call(q).params.filter : ~Compares(f) /\ Type(evaluate(f, env)) = "error", "InvalidArgument">>
           d == <<\E f \in Call(q).params.filter : ~Compares(f) /\ evaluate(f, env) # Bool(TRUE), "FailedPrecondition">>
           e == <<Call(q).context = {}, "InvalidArgument">>
           then == IF \E f \in Call(q).params.filter : Compares(f)
                   THEN GetSecret(q, "compare", {f.secretRef : f \in Call(q).params.filter})
                   ELSE Overlays(q)
           checks == <<a, e, b, c, d>>
<1>1. CelProcess(q) = Unless(q, checks, then)
  BY Zenon DEF CelProcess
<1> HIDE DEF a, b, c, d
<1>2. ASSUME \A i \in DOMAIN checks : ~checks[i][1] PROVE RequestOK(then)
  <2>1. ~e[1]
    <3> HIDE DEF e
    <3>1. 2 \in DOMAIN checks /\ checks[2] = e
      BY SMTT(30)
    <3> QED BY <1>2, <3>1
  <2>2. e[1] <=> Call(q).context = {}
    BY Zenon
  <2>3. CASE \E f \in Call(q).params.filter : Compares(f)
    BY <2>1, <2>2, <2>3, CompareOK
  <2>4. CASE ~\E f \in Call(q).params.filter : Compares(f)
    <3>1. Presented(Call(q)) = {}
      BY <2>4 DEF Presented
    <3> QED BY <2>4, <3>1, NothingPresented, OverlaysOK
  <2> QED BY <2>3, <2>4
<1> HIDE DEF checks, then
<1> QED BY <1>1, <1>2, UnlessOK

LEMMA ExecuteInterceptorOK ==
    ASSUME NEW q, Made(q), Sees(q)
    PROVE  RequestOK(ExecuteInterceptor(q))
<1>1. CASE Call(q).path \notin interceptors \/ ~Call(q).readable \/ ~Call(q).decodes
  BY <1>1, ServeErrorOK, SMTT(30) DEF ExecuteInterceptor
<1>2. CASE Call(q).path \in interceptors /\ Call(q).readable /\ Call(q).decodes
  BY <1>2, GithubProcessOK, GitlabProcessOK, BitbucketProcessOK, SlackProcessOK, CelProcessOK, SMTT(30)
     DEF ExecuteInterceptor, interceptors
<1> QED BY <1>1, <1>2

-----------------------------------------------------------------------------
(* With a secret in hand *)

LEMMA KnownBefore ==
    ASSUME Types, NEW s, NEW v, NEW t \in Int, NEW u \in Int, u <= t, Known(s, v, t)
    PROVE  Known(s, v, u)
<1>1. s \in SecretRef /\ v \in Value
  BY DEF Known, HeldSince
<1>2. lost[s][v] \in Int
  BY <1>1 DEF Types
<1> QED BY <1>1, <1>2, SMTT(30) DEF Known, HeldSince

LEMMA ValidateOK ==
    ASSUME NEW q, Made(q), Sees(q), Named(q), Call(q).path \in {"github", "gitlab", "bitbucket"},
           NEW value, Known(q.ref, value, q.start - TTL)
    PROVE  RequestOK(Validate(q, value))
<1>1. CASE Call(q).signature # value
  BY <1>1, FailOK DEF Validate
<1>2. CASE Call(q).signature = value
  <2>1. \A p \in Presented(Call(q)) : p[2] = value
    BY <1>2, SMTT(30) DEF Presented
  <2>2. Fresh(q)
    BY <2>1, Zenon DEF Fresh, Named
  <2> QED BY <1>2, <2>2, AfterSignatureOK, UnaskedOK DEF Validate
<1> QED BY <1>1, <1>2

LEMMA CompareSecretOK ==
    ASSUME NEW q, Made(q), Named(q), Call(q).path = "cel",
           NEW value, Known(q.ref, value, q.start - TTL)
    PROVE  RequestOK(CompareSecret(q, value))
<1>1. ASSUME \E f \in Call(q).params.filter : f.compare = value PROVE RequestOK(Overlays(q))
  <2>1. \A f \in Call(q).params.filter : f.compare = value
    BY <1>1, AtMostOne
  <2>2. \A p \in Presented(Call(q)) : p[2] = value
    BY <2>1, SMTT(30) DEF Presented
  <2>3. Fresh(q)
    BY <2>2, Zenon DEF Fresh, Named
  <2> QED BY <2>3, OverlaysOK
<1> QED BY <1>1, FailOK DEF CompareSecret

LEMMA GotOK ==
    ASSUME NEW q, Made(q), Sees(q), Purposeful(q), NEW value, Known(q.ref, value, q.start - TTL)
    PROVE  RequestOK(Got(q, value))
<1>1. CASE q.purpose = "signature"
  BY <1>1, ValidateOK DEF Purposeful, Got
<1>2. CASE q.purpose = "compare"
  BY <1>2, CompareSecretOK DEF Purposeful, Got
<1>3. CASE q.purpose = "changed files"
  BY <1>3, AddChangedFilesOK DEF Purposeful, Got
<1>4. CASE q.purpose = "owners"
  BY <1>4, CheckOwnersOK DEF Purposeful, Got
<1> QED BY <1>1, <1>2, <1>3, <1>4 DEF Purposeful

-----------------------------------------------------------------------------
(* The cache *)

LEMMA RemoveAtSeq ==
    ASSUME NEW S, NEW c \in Seq(S), NEW i \in DOMAIN c
    PROVE  RemoveAt(c, i) \in Seq(S)
<1>1. Len(c) \in Nat /\ i \in 1..Len(c) /\ \A j \in 1..Len(c) : c[j] \in S
  BY SMTT(30)
<1>2. SubSeq(c, 1, i - 1) \in Seq(S)
  BY <1>1, SubSeqProperties, SMTT(30)
<1>3. SubSeq(c, i + 1, Len(c)) \in Seq(S)
  BY <1>1, SubSeqProperties, SMTT(30)
<1> QED BY <1>2, <1>3, ConcatProperties, Zenon DEF RemoveAt

LEMMA OthersSeq ==
    ASSUME NEW S, NEW c \in Seq(S), NEW key
    PROVE  Others(c, key) \in Seq(S)
<1>1. CASE EntriesOf(c, key) = {}
  BY <1>1 DEF Others
<1>2. CASE EntriesOf(c, key) # {}
  <2> DEFINE i == CHOOSE j \in EntriesOf(c, key) : TRUE
  <2>1. i \in EntriesOf(c, key)
    BY <1>2
  <2>2. i \in DOMAIN c
    BY <2>1 DEF EntriesOf
  <2> HIDE DEF i
  <2>3. RemoveAt(c, i) \in Seq(S)
    BY <2>2, RemoveAtSeq
  <2> QED BY <1>2, <2>3 DEF Others, i
<1> QED BY <1>1, <1>2

\* An entry of the cache comes first
LEMMA FirstSeq ==
    ASSUME NEW S, NEW c \in Seq(S), NEW e \in S
    PROVE  <<e>> \o c \in Seq(S)
<1>1. <<e>> \in Seq(S)
  BY SMTT(30)
<1> QED BY <1>1, ConcatProperties, Zenon

LEMMA HitInCache ==
    ASSUME NEW S, NEW c \in Seq(S), NEW key, NEW n, NEW e \in Hit(c, key, n)
    PROVE  e \in S /\ e.key = key /\ n <= e.expires
<1>1. PICK i \in DOMAIN c : e = c[i] /\ c[i].key = key /\ n <= e.expires
  BY DEF Hit, Held, EntriesOf
<1>2. DOMAIN c = 1..Len(c)
  BY SMTT(30)
<1>3. c[i] \in S
  BY <1>2, SMTT(30)
<1> QED BY <1>1, <1>3

LEMMA LRUGetSeq ==
    ASSUME NEW S, NEW c \in Seq(S), NEW key, NEW n
    PROVE  LRUGet(c, key, n) \in Seq(S)
<1>1. CASE Hit(c, key, n) = {}
  BY <1>1, OthersSeq DEF LRUGet
<1>2. CASE Hit(c, key, n) # {}
  <2> DEFINE e == CHOOSE x \in Hit(c, key, n) : TRUE
  <2>1. e \in Hit(c, key, n)
    BY <1>2
  <2> HIDE DEF e
  <2>2. e \in S
    BY <2>1, HitInCache
  <2>3. <<e>> \o Others(c, key) \in Seq(S)
    BY <2>2, OthersSeq, FirstSeq
  <2> QED BY <1>2, <2>3 DEF LRUGet, e
<1> QED BY <1>1, <1>2

LEMMA LRUAddSeq ==
    ASSUME NEW S, NEW c \in Seq(S), NEW key, NEW value, NEW n,
           [key |-> key, value |-> value, expires |-> n + TTL] \in S
    PROVE  LRUAdd(c, key, value, n) \in Seq(S)
<1> DEFINE e == [key |-> key, value |-> value, expires |-> n + TTL]
           rest == Others(c, key)
<1>1. rest \in Seq(S)
  BY OthersSeq
<1>2. SubSeq(rest, 1, Len(rest) - 1) \in Seq(S)
  <2> HIDE DEF rest
  <2>1. Len(rest) \in Nat /\ \A j \in 1..(Len(rest) - 1) : rest[j] \in S
    BY <1>1, SMTT(30)
  <2> QED BY <2>1, SubSeqProperties, SMTT(30)
<1>3. ASSUME NEW room \in Seq(S) PROVE <<e>> \o room \in Seq(S)
  BY FirstSeq
<1> QED BY <1>1, <1>2, <1>3 DEF LRUAdd

-----------------------------------------------------------------------------
(* From one state to the next *)

\* What a secret held at some time it has still held then
Kept ==
    \A s \in SecretRef, v \in Value : \A t \in Int :
        t <= now /\ (secrets[s] = v \/ lost[s][v] >= t) => (secrets'[s] = v \/ lost'[s][v] >= t)

LEMMA Carries ==
    ASSUME NEW r, RequestOK(reqs'[r]), Kept, now \in Nat, now' \in Nat, now <= now',
           reqs'[r].pc = "add" => now' = now,
           reqs'[r].pc \notin {"idle", "done"} =>
               Approved(github', CallOf(reqs'[r].call).params.owners.checkType) \subseteq reqs'[r].members
    PROVE  RequestOK(reqs[r])'
<1> DEFINE q == reqs'[r]
<1>t. TTL \in Nat
  BY CoreAssumption
<1>1. Made(reqs[r])'
  BY SMTT(30) DEF RequestOK, Made, AllCalls, Fields
<1>2. q.start \in Nat /\ q.start <= now /\ q.start - TTL \in Int /\ q.start - TTL <= now
  BY <1>t, SMTT(30) DEF RequestOK, Made
<1>3. Fresh(q) => Fresh(reqs[r])'
  BY <1>2 DEF Fresh, Known, HeldSince, Kept, Call, Presented
<1>4. MayContinue(q) => MayContinue(reqs[r])'
  BY <1>3 DEF MayContinue, Call, Asks, Says
<1>5. Checking(q) => Checking(reqs[r])'
  BY <1>3 DEF Checking, Call, Says, CheckType
<1>6. Purposeful(q) => Purposeful(reqs[r])'
  BY <1>3 DEF Purposeful, Named, Call, Asks, Presented
<1>7. q.pc = "add" => (Known(reqs[r].ref, reqs[r].value, now))'
  BY SMTT(30) DEF RequestOK, Sound, Known, HeldSince, Kept
<1>8. Sound(reqs[r])'
  BY <1>3, <1>4, <1>5, <1>6, <1>7 DEF RequestOK, Sound, Call, Asks
<1>9. SeesMembers(reqs[r])'
  BY DEF SeesMembers, Sees, CheckType, Call
<1> QED BY <1>1, <1>8, <1>9 DEF RequestOK

LEMMA CacheCarries ==
    ASSUME cache' \in Seq(SoundEntries), Kept, now \in Nat, now' \in Nat, now <= now'
    PROVE  CacheSound'
<1>t. TTL \in Nat
  BY CoreAssumption
<1>1. SoundEntries \subseteq SoundEntries'
  <2> SUFFICES ASSUME NEW e \in Entry, EntrySound(e) PROVE EntrySound(e)'
    BY DEF SoundEntries, Entry
  <2>1. e.expires - TTL \in Int /\ e.expires - TTL <= now /\ e.expires - TTL <= now'
    BY <1>t, SMTT(30) DEF Entry, EntrySound
  <2> QED BY <2>1 DEF EntrySound, Known, HeldSince, Kept
<1> QED BY <1>1, SeqMonotonic DEF CacheSound

\* A step of one request
LEMMA StepOK ==
    ASSUME CoreInv, NEW r \in Request, NEW q, Becomes(r, q), RequestOK(q),
           UNCHANGED <<load, secrets, lost, now, github>>, cache' \in Seq(SoundEntries)
    PROVE  CoreInv'
<1>1. Kept /\ now \in Nat /\ now' \in Nat /\ now <= now'
  BY SMTT(30) DEF Kept, CoreInv, Types
<1>2. Types'
  BY DEF CoreInv, Types, Becomes
<1>3. CacheSound'
  BY <1>1, CacheCarries
<1>4. ASSUME NEW k \in Request PROVE (reqs[k].pc = "idle" \/ RequestOK(reqs[k]))'
  <2>1. reqs'[k] = IF k = r THEN q ELSE reqs[k]
    BY DEF Becomes, CoreInv, Types
  <2>2. reqs'[k].pc = "idle" \/ RequestOK(reqs'[k])
    BY <2>1 DEF CoreInv, RequestsSound
  <2>3. ASSUME RequestOK(reqs'[k]), reqs'[k].pc \notin {"idle", "done"}
        PROVE  Approved(github', CallOf(reqs'[k].call).params.owners.checkType) \subseteq reqs'[k].members
    BY <2>3 DEF RequestOK, SeesMembers, Sees, CheckType, Call
  <2> QED BY <1>1, <2>2, <2>3, Carries
<1> QED BY <1>2, <1>3, <1>4 DEF CoreInv, RequestsSound

LEMMA ServeHTTPInv ==
    ASSUME CoreInv, NEW r \in Request, ServeHTTP(r)
    PROVE  CoreInv'
<1>1. PICK c \in LoadOf(load).calls[r] : Becomes(r, ExecuteInterceptor(Arrived(c)))
  BY DEF ServeHTTP
<1> DEFINE q == Arrived(c)
<1>2. c \in AllCalls
  <2>1. load \in Loads
    BY DEF CoreInv, Types
  <2> QED BY <2>1, SMTT(30) DEF AllCalls
<1>3. Made(q) /\ Sees(q)
  BY <1>2, SMTT(30) DEF Arrived, Made, Sees, CheckType, Call, Fields, CoreInv, Types
<1> HIDE DEF q
<1>4. RequestOK(ExecuteInterceptor(q))
  BY <1>3, ExecuteInterceptorOK
<1>5. UNCHANGED <<load, secrets, lost, now, github>> /\ cache' \in Seq(SoundEntries)
  BY DEF ServeHTTP, CoreInv, CacheSound
<1> QED BY <1>1, <1>4, <1>5, StepOK DEF q

\* A request that is served is sound
LEMMA ServedOK ==
    ASSUME CoreInv, NEW r \in Request, reqs[r].pc \notin {"idle", "done"}
    PROVE  RequestOK(reqs[r]) /\ Made(reqs[r]) /\ Sees(reqs[r])
BY DEF CoreInv, RequestsSound, RequestOK, SeesMembers

LEMMA CacheHitInv ==
    ASSUME CoreInv, NEW r \in Request, CacheHit(r)
    PROVE  CoreInv'
<1> DEFINE q == reqs[r]
<1>1. PICK e \in Hit(cache, q.ref, now) : Becomes(r, Got(q, e.value))
  BY DEF CacheHit
<1>2. RequestOK(q) /\ Made(q) /\ Sees(q) /\ q.pc = "cache"
  BY ServedOK DEF CacheHit
<1>3. Purposeful(q)
  BY <1>2 DEF RequestOK, Sound, Getting
<1>4. e \in SoundEntries /\ e.key = q.ref /\ now <= e.expires
  BY HitInCache DEF CoreInv, CacheSound
<1>5. Known(q.ref, e.value, q.start - TTL)
  <2>1. TTL \in Nat /\ q.start \in Nat /\ q.start <= now /\ now \in Nat /\ e.expires \in Int
    BY <1>2, <1>4, CoreAssumption DEF Made, CoreInv, Types, SoundEntries, Entry
  <2>2. Known(q.ref, e.value, e.expires - TTL)
    BY <1>4 DEF SoundEntries, EntrySound
  <2>3. e.expires - TTL \in Int /\ q.start - TTL \in Int /\ q.start - TTL <= e.expires - TTL
    BY <1>4, <2>1, SMTT(30)
  <2> QED BY <2>2, <2>3, KnownBefore DEF CoreInv
<1>6. RequestOK(Got(q, e.value))
  BY <1>2, <1>3, <1>5, GotOK
<1>7. UNCHANGED <<load, secrets, lost, now, github>> /\ cache' \in Seq(SoundEntries)
  BY LRUGetSeq DEF CacheHit, CoreInv, CacheSound
<1> QED BY <1>1, <1>6, <1>7, StepOK

LEMMA CacheMissInv ==
    ASSUME CoreInv, NEW r \in Request, CacheMiss(r)
    PROVE  CoreInv'
<1> DEFINE q == reqs[r]
           s == [q EXCEPT !.pc = "fetch"]
<1>1. RequestOK(q) /\ Made(q) /\ Sees(q) /\ q.pc = "cache"
  BY ServedOK DEF CacheMiss
<1>2. Purposeful(q)
  BY <1>1 DEF RequestOK, Sound, Getting
<1>3. Same(q, s) /\ s.pc = "fetch" /\ s.purpose = q.purpose /\ s.ref = q.ref
  BY <1>1 DEF Same, Made, Fields
<1>4. Becomes(r, s)
  BY DEF CacheMiss
<1> HIDE DEF s, q
<1>5. Purposeful(s)
  BY <1>2, <1>3, SameSound DEF Purposeful, Named
<1>6. RequestOK(s)
  BY <1>1, <1>3, <1>5, SameSound DEF RequestOK, Sound, SeesMembers, Getting, Calling
<1>7. UNCHANGED <<load, secrets, lost, now, github>> /\ cache' \in Seq(SoundEntries)
  BY LRUGetSeq DEF CacheMiss, CoreInv, CacheSound
<1> QED BY <1>4, <1>6, <1>7, StepOK

LEMMA CallErrorOK ==
    ASSUME NEW q, Made(q)
    PROVE  RequestOK(CallError(q))
BY FailOK DEF CallError

LEMMA FetchSecretInv ==
    ASSUME CoreInv, NEW r \in Request, FetchSecret(r)
    PROVE  CoreInv'
<1> DEFINE q == reqs[r]
           s == [q EXCEPT !.pc = "add", !.value = secrets[q.ref]]
           missing == q.ref \notin SecretRef \/ secrets[q.ref] = NoValue
<1>1. RequestOK(q) /\ Made(q) /\ Sees(q) /\ q.pc = "fetch"
  BY ServedOK DEF FetchSecret
<1>2. Purposeful(q)
  BY <1>1 DEF RequestOK, Sound, Getting
<1>3. Same(q, s) /\ s.pc = "add" /\ s.purpose = q.purpose /\ s.ref = q.ref /\ s.value = secrets[q.ref]
  BY <1>1 DEF Same, Made, Fields
<1>4. Becomes(r, IF missing THEN CallError(q) ELSE s)
  BY DEF FetchSecret
<1>5. ~missing => Known(q.ref, secrets[q.ref], now)
  BY CoreAssumption DEF Known, HeldSince, CoreInv, Types
<1>6. ~missing => RequestOK(s)
  <2> HIDE DEF s, q, missing
  <2>1. Purposeful(s)
    BY <1>2, <1>3, SameSound DEF Purposeful, Named
  <2>2. ~missing => Known(s.ref, s.value, now)
    BY <1>3, <1>5
  <2> QED BY <1>1, <1>3, <2>1, <2>2, SameSound DEF RequestOK, Sound, SeesMembers, Getting, Calling
<1>7. RequestOK(IF missing THEN CallError(q) ELSE s)
  BY <1>1, <1>6, CallErrorOK
<1>8. UNCHANGED <<load, secrets, lost, now, github>> /\ cache' \in Seq(SoundEntries)
  BY DEF FetchSecret, CoreInv, CacheSound
<1> QED BY <1>4, <1>7, <1>8, StepOK

LEMMA AddToCacheInv ==
    ASSUME CoreInv, NEW r \in Request, AddToCache(r)
    PROVE  CoreInv'
<1> DEFINE q == reqs[r]
           s == [q EXCEPT !.value = NoValue]
           e == [key |-> q.ref, value |-> q.value, expires |-> now + TTL]
<1>1. RequestOK(q) /\ Made(q) /\ Sees(q) /\ q.pc = "add"
  BY ServedOK DEF AddToCache
<1>2. Purposeful(q) /\ Known(q.ref, q.value, now)
  BY <1>1 DEF RequestOK, Sound, Getting
<1>3. Same(q, s) /\ s.purpose = q.purpose /\ s.ref = q.ref
  BY <1>1 DEF Same, Made, Fields
<1>4. Becomes(r, Got(s, q.value)) /\ cache' = LRUAdd(cache, q.ref, q.value, now)
  BY DEF AddToCache
<1>5. now \in Nat /\ TTL \in Nat /\ q.start \in Nat /\ q.start <= now
  BY <1>1, CoreAssumption DEF CoreInv, Types, Made
<1>6. e \in SoundEntries
  <2>1. e \in Entry
    BY <1>2, <1>5, SMTT(30) DEF Entry, Known, HeldSince
  <2>2. e.expires - TTL = now /\ e.key = q.ref /\ e.value = q.value
    BY <1>5, SMTT(30)
  <2>3. EntrySound(e)
    <3> HIDE DEF e
    <3> QED BY <1>2, <1>5, <2>2, SMTT(30) DEF EntrySound
  <2> QED BY <2>1, <2>3 DEF SoundEntries
<1>7. cache' \in Seq(SoundEntries)
  BY <1>4, <1>6, LRUAddSeq DEF CoreInv, CacheSound
<1>8. Known(q.ref, q.value, q.start - TTL)
  <2>1. q.start - TTL \in Int /\ now \in Int /\ q.start - TTL <= now
    BY <1>5, SMTT(30)
  <2> QED BY <1>2, <2>1, KnownBefore DEF CoreInv
<1>9. RequestOK(Got(s, q.value))
  <2> HIDE DEF s, q
  <2>1. Purposeful(s) /\ Made(s) /\ Sees(s)
    BY <1>1, <1>2, <1>3, SameSound DEF Purposeful, Named
  <2>2. Known(s.ref, q.value, s.start - TTL)
    BY <1>3, <1>8 DEF Same
  <2> QED BY <2>1, <2>2, GotOK
<1>10. UNCHANGED <<load, secrets, lost, now, github>>
  BY DEF AddToCache
<1> QED BY <1>4, <1>7, <1>9, <1>10, StepOK

LEMMA ListFilesInv ==
    ASSUME CoreInv, NEW r \in Request, ListFiles(r)
    PROVE  CoreInv'
<1> DEFINE q == reqs[r]
           page == IF q.page \in DOMAIN github.pages THEN github.pages[q.page] ELSE <<>>
           all == q.files \o page
           s == [q EXCEPT !.files = all, !.page = @ + 1]
           t == [q EXCEPT !.files = <<>>, !.page = 1]
<1>1. RequestOK(q) /\ Made(q) /\ Sees(q) /\ q.pc = "list"
  BY ServedOK DEF ListFiles
<1>2. Fresh(q) /\ ~Asks(Call(q))
  BY <1>1 DEF RequestOK, Sound
<1>3. Becomes(r, IF q.page < Len(github.pages) THEN s ELSE Continue(t, [changed_files |-> all]))
  BY DEF ListFiles
<1> HIDE DEF all
<1>4. Same(q, s) /\ s.pc = "list" /\ Same(q, t)
  BY <1>1 DEF Same, Made, Fields
<1> HIDE DEF q, s, t
<1>5. RequestOK(s)
  BY <1>1, <1>2, <1>4, SameSound DEF RequestOK, Sound, SeesMembers, Getting, Calling
<1>6. RequestOK(Continue(t, [changed_files |-> all]))
  BY <1>1, <1>2, <1>4, SameSound, ContinueOK DEF MayContinue
<1>7. UNCHANGED <<load, secrets, lost, now, github>> /\ cache' \in Seq(SoundEntries)
  BY DEF ListFiles, CoreInv, CacheSound
<1> QED BY <1>3, <1>5, <1>6, <1>7, StepOK

\* The owners check goes on with another list
LEMMA NextListOK ==
    ASSUME NEW q, RequestOK(q), Sees(q), Checking(q), NEW pc \in {"repo", "file"},
           pc = "repo" => CheckType(q) = "all"
    PROVE  RequestOK([q EXCEPT !.pc = pc])
<1> DEFINE s == [q EXCEPT !.pc = pc]
<1>1. Same(q, s) /\ s.pc = pc /\ s.round = q.round
  BY DEF Same, RequestOK, Made, Fields
<1> HIDE DEF s
<1>2. Checking(s)
  BY <1>1, SameSound DEF Checking
<1>3. RequestOK(s)
  BY <1>1, <1>2, SameSound DEF RequestOK, Sound, SeesMembers, Getting, Calling
<1> QED BY <1>3 DEF s

LEMMA OrgInv ==
    ASSUME CoreInv, NEW r \in Request, checkSenderOrgMembership(r)
    PROVE  CoreInv'
<1> DEFINE q == reqs[r]
           pc == IF CheckType(q) = "all" THEN "repo" ELSE "file"
           s == IF Call(q).payload.sender \in github.org THEN Owned(q, TRUE) ELSE [q EXCEPT !.pc = pc]
<1>1. RequestOK(q) /\ Made(q) /\ Sees(q) /\ q.pc = "org"
  BY ServedOK DEF checkSenderOrgMembership
<1>2. Checking(q)
  BY <1>1 DEF RequestOK, Sound
<1>3. Becomes(r, s)
  BY DEF checkSenderOrgMembership
<1>4. ASSUME Call(q).payload.sender \in github.org PROVE RequestOK(Owned(q, TRUE))
  <2>1. Call(q).payload.sender \in q.members
    BY <1>1, <1>2, <1>4 DEF Sees, Approved, Checking
  <2> QED BY <1>1, <1>2, <2>1, OwnedOK DEF Checking
<1>5. RequestOK([q EXCEPT !.pc = pc])
  BY <1>1, <1>2, NextListOK
<1>6. RequestOK(s)
  BY <1>4, <1>5
<1>7. UNCHANGED <<load, secrets, lost, now, github>> /\ cache' \in Seq(SoundEntries)
  BY DEF checkSenderOrgMembership, CoreInv, CacheSound
<1> HIDE DEF s
<1> QED BY <1>3, <1>6, <1>7, StepOK

LEMMA RepoInv ==
    ASSUME CoreInv, NEW r \in Request, checkSenderRepoMembership(r)
    PROVE  CoreInv'
<1> DEFINE q == reqs[r]
           s == IF Call(q).payload.sender \in github.repo THEN Owned(q, TRUE) ELSE [q EXCEPT !.pc = "file"]
<1>1. RequestOK(q) /\ Made(q) /\ Sees(q) /\ q.pc = "repo"
  BY ServedOK DEF checkSenderRepoMembership
<1>2. Checking(q)
  BY <1>1 DEF RequestOK, Sound
<1>3. Becomes(r, s)
  BY DEF checkSenderRepoMembership
<1>4. ASSUME Call(q).payload.sender \in github.repo PROVE RequestOK(Owned(q, TRUE))
  <2>1. Call(q).payload.sender \in q.members
    BY <1>1, <1>2, <1>4 DEF Sees, Approved, Checking
  <2> QED BY <1>1, <1>2, <2>1, OwnedOK DEF Checking
<1>5. RequestOK([q EXCEPT !.pc = "file"])
  BY <1>1, <1>2, NextListOK
<1>6. RequestOK(s)
  BY <1>4, <1>5
<1>7. UNCHANGED <<load, secrets, lost, now, github>> /\ cache' \in Seq(SoundEntries)
  BY DEF checkSenderRepoMembership, CoreInv, CacheSound
<1> HIDE DEF s
<1> QED BY <1>3, <1>6, <1>7, StepOK

LEMMA OwnerFileInv ==
    ASSUME CoreInv, NEW r \in Request, userInOwnerFile(r)
    PROVE  CoreInv'
<1> DEFINE q == reqs[r]
           allowed == Call(q).payload.sender \in github.owners
<1>1. RequestOK(q) /\ Made(q) /\ Sees(q) /\ q.pc = "file"
  BY ServedOK DEF userInOwnerFile
<1>2. Checking(q)
  BY <1>1 DEF RequestOK, Sound
<1>3. Becomes(r, Owned(q, allowed))
  BY DEF userInOwnerFile
<1>4. allowed \in BOOLEAN /\ (allowed => Call(q).payload.sender \in q.members)
  BY <1>1, SMTT(30) DEF Sees, Approved
<1> HIDE DEF allowed
<1>5. RequestOK(Owned(q, allowed))
  BY <1>1, <1>2, <1>4, OwnedOK DEF Checking
<1>6. UNCHANGED <<load, secrets, lost, now, github>> /\ cache' \in Seq(SoundEntries)
  BY DEF userInOwnerFile, CoreInv, CacheSound
<1> QED BY <1>3, <1>5, <1>6, StepOK

LEMMA CallEndsInv ==
    ASSUME CoreInv, NEW r \in Request, CallFails(r) \/ CallExpires(r)
    PROVE  CoreInv'
<1>1. Made(reqs[r])
  BY ServedOK DEF CallFails, CallExpires, Calling
<1>2. Becomes(r, CallError(reqs[r])) /\ UNCHANGED <<load, secrets, lost, now, github>>
  BY DEF CallFails, CallExpires
<1>3. cache' \in Seq(SoundEntries)
  BY DEF CallFails, CallExpires, CoreInv, CacheSound
<1> QED BY <1>1, <1>2, <1>3, CallErrorOK, StepOK

LEMMA ChangeSecretInv ==
    ASSUME CoreInv, NEW s \in SecretRef, NEW v \in Value \cup {NoValue}, ChangeSecret(s, v)
    PROVE  CoreInv'
<1>1. secrets' = [secrets EXCEPT ![s] = v] /\ UNCHANGED <<load, cache, now, github, reqs>>
  BY DEF ChangeSecret
<1>2. lost' = IF secrets[s] = NoValue THEN lost ELSE [lost EXCEPT ![s][secrets[s]] = now]
  BY DEF ChangeSecret
<1>3. secrets \in [SecretRef -> Value \cup {NoValue}] /\ lost \in [SecretRef -> [Value -> Int]] /\ now \in Nat
  BY DEF CoreInv, Types
<1>4. Types'
  <2>1. lost' \in [SecretRef -> [Value -> Int]]
    <3>1. CASE secrets[s] = NoValue
      BY <1>2, <1>3, <3>1
    <3>2. CASE secrets[s] # NoValue
      <4>1. secrets[s] \in Value /\ lost' = [lost EXCEPT ![s] = [lost[s] EXCEPT ![secrets[s]] = now]]
        BY <1>2, <1>3, <3>2
      <4>2. [lost[s] EXCEPT ![secrets[s]] = now] \in [Value -> Int]
        BY <1>3, <4>1, SMTT(30)
      <4> QED BY <1>3, <4>1, <4>2
    <3> QED BY <3>1, <3>2
  <2> QED BY <1>1, <1>3, <2>1 DEF CoreInv, Types
<1>5. Kept
  <2> SUFFICES ASSUME NEW x \in SecretRef, NEW w \in Value, NEW t \in Int, t <= now,
                      secrets[x] = w \/ lost[x][w] >= t
               PROVE  secrets'[x] = w \/ lost'[x][w] >= t
    BY DEF Kept
  <2>1. CASE x # s
    <3>1. secrets'[x] = secrets[x] /\ lost'[x] = lost[x]
      BY <1>1, <1>2, <1>3, <2>1
    <3> QED BY <3>1
  <2>2. CASE x = s /\ secrets[s] = NoValue
    BY <1>2, <2>2, CoreAssumption
  <2>3. CASE x = s /\ secrets[s] # NoValue
    <3>1. secrets[s] \in Value
      BY <1>3, <2>3
    <3>2. lost'[s] = [lost[s] EXCEPT ![secrets[s]] = now]
      BY <1>2, <1>3, <2>3
    <3>3. lost'[s][w] = IF w = secrets[s] THEN now ELSE lost[s][w]
      BY <1>3, <3>1, <3>2
    <3> QED BY <1>3, <2>3, <3>3
  <2> QED BY <2>1, <2>2, <2>3
<1>6. now \in Nat /\ now' \in Nat /\ now <= now'
  BY <1>1, <1>3, SMTT(30)
<1>7. CacheSound'
  BY <1>1, <1>5, <1>6, CacheCarries DEF CoreInv, CacheSound
<1>8. ASSUME NEW k \in Request PROVE (reqs[k].pc = "idle" \/ RequestOK(reqs[k]))'
  <2>1. reqs'[k].pc = "idle" \/ RequestOK(reqs'[k])
    BY <1>1 DEF CoreInv, RequestsSound
  <2>2. ASSUME RequestOK(reqs'[k]), reqs'[k].pc \notin {"idle", "done"}
        PROVE  Approved(github', CallOf(reqs'[k].call).params.owners.checkType) \subseteq reqs'[k].members
    BY <1>1, <2>2 DEF RequestOK, SeesMembers, Sees, CheckType, Call
  <2> QED BY <1>1, <1>5, <1>6, <2>1, <2>2, Carries
<1> QED BY <1>4, <1>7, <1>8 DEF CoreInv, RequestsSound

LEMMA ChangeGithubInv ==
    ASSUME CoreInv, NEW g, ChangeGithub(g)
    PROVE  CoreInv'
<1>1. github' = g /\ UNCHANGED <<load, secrets, lost, cache, now>>
  BY DEF ChangeGithub
<1>2. Types'
  BY <1>1 DEF ChangeGithub, CoreInv, Types
<1>3. Kept /\ now \in Nat /\ now' \in Nat /\ now <= now'
  BY <1>1, SMTT(30) DEF Kept, CoreInv, Types
<1>4. CacheSound'
  BY <1>1, <1>3, CacheCarries DEF CoreInv, CacheSound
<1>5. ASSUME NEW k \in Request PROVE (reqs[k].pc = "idle" \/ RequestOK(reqs[k]))'
  <2>1. CASE ~Serving(k)
    <3>1. reqs'[k] = reqs[k] /\ reqs[k].pc \in {"idle", "done"}
      BY <2>1 DEF ChangeGithub, Serving
    <3>2. reqs'[k].pc = "idle" \/ RequestOK(reqs'[k])
      BY <3>1 DEF CoreInv, RequestsSound
    <3> QED BY <1>1, <1>3, <3>1, <3>2, Carries
  <2>2. CASE Serving(k)
    <3> DEFINE q == reqs[k]
               s == [q EXCEPT !.members = @ \cup Approved(g, CheckType(q)), !.prs = @ \cup {g.pages}]
    <3>1. RequestOK(q) /\ Made(q) /\ Sees(q) /\ q.pc \notin {"idle", "done"}
      BY <2>2, ServedOK DEF Serving
    <3>2. reqs'[k] = s
      BY <2>2 DEF ChangeGithub
    <3>3. /\ DOMAIN s = Fields /\ s.call = q.call /\ s.start = q.start /\ s.pc = q.pc /\ s.purpose = q.purpose
          /\ s.ref = q.ref /\ s.value = q.value /\ s.round = q.round
          /\ s.members = q.members \cup Approved(g, CheckType(q))
      BY <3>1 DEF Made, Fields
    <3> HIDE DEF s, q
    <3>4. Made(s) /\ Call(s) = Call(q) /\ CheckType(s) = CheckType(q) /\ (Fresh(q) => Fresh(s))
      BY <3>1, <3>3 DEF Made, Call, CheckType, Fresh
    <3>5. Purposeful(q) => Purposeful(s)
      BY <3>3, <3>4 DEF Purposeful, Named
    <3>6. Checking(q) => Checking(s)
      BY <3>3, <3>4 DEF Checking
    <3>7. RequestOK(s)
      BY <3>1, <3>3, <3>4, <3>5, <3>6 DEF RequestOK, Sound, SeesMembers, Sees
    <3>8. Approved(g, CallOf(s.call).params.owners.checkType) \subseteq s.members
      BY <3>3 DEF CheckType, Call
    <3> QED BY <1>1, <1>3, <3>2, <3>7, <3>8, Carries
  <2> QED BY <2>1, <2>2
<1> QED BY <1>2, <1>4, <1>5 DEF CoreInv, RequestsSound

LEMMA TickInv ==
    ASSUME CoreInv, Tick
    PROVE  CoreInv'
<1>1. now' = now + 1 /\ UNCHANGED <<load, secrets, lost, cache, github, reqs>> /\ \A k \in Request : reqs[k].pc # "add"
  BY DEF Tick
<1>2. Types'
  BY <1>1, SMTT(30) DEF CoreInv, Types
<1>3. Kept /\ now \in Nat /\ now' \in Nat /\ now <= now'
  BY <1>1, SMTT(30) DEF Kept, CoreInv, Types
<1>4. CacheSound'
  BY <1>1, <1>3, CacheCarries DEF CoreInv, CacheSound
<1>5. ASSUME NEW k \in Request PROVE (reqs[k].pc = "idle" \/ RequestOK(reqs[k]))'
  <2>1. reqs'[k].pc = "idle" \/ RequestOK(reqs'[k])
    BY <1>1 DEF CoreInv, RequestsSound
  <2>2. ASSUME RequestOK(reqs'[k]), reqs'[k].pc \notin {"idle", "done"}
        PROVE  Approved(github', CallOf(reqs'[k].call).params.owners.checkType) \subseteq reqs'[k].members
    BY <1>1, <2>2 DEF RequestOK, SeesMembers, Sees, CheckType, Call
  <2>3. reqs'[k].pc # "add"
    BY <1>1
  <2> QED BY <1>1, <1>3, <2>1, <2>2, <2>3, Carries
<1> QED BY <1>2, <1>4, <1>5 DEF CoreInv, RequestsSound

LEMMA StutterInv ==
    ASSUME CoreInv, UNCHANGED coreVars
    PROVE  CoreInv'
<1>1. UNCHANGED <<load, secrets, lost, cache, now, github, reqs>>
  BY DEF coreVars
<1>2. Kept /\ now \in Nat /\ now' \in Nat /\ now <= now' /\ Types'
  BY <1>1, SMTT(30) DEF Kept, CoreInv, Types
<1>3. CacheSound'
  BY <1>1, <1>2, CacheCarries DEF CoreInv, CacheSound
<1>4. ASSUME NEW k \in Request PROVE (reqs[k].pc = "idle" \/ RequestOK(reqs[k]))'
  <2>1. reqs'[k].pc = "idle" \/ RequestOK(reqs'[k])
    BY <1>1 DEF CoreInv, RequestsSound
  <2>2. ASSUME RequestOK(reqs'[k]), reqs'[k].pc \notin {"idle", "done"}
        PROVE  Approved(github', CallOf(reqs'[k].call).params.owners.checkType) \subseteq reqs'[k].members
    BY <1>1, <2>2 DEF RequestOK, SeesMembers, Sees, CheckType, Call
  <2> QED BY <1>1, <1>2, <2>1, <2>2, Carries
<1> QED BY <1>2, <1>3, <1>4 DEF CoreInv, RequestsSound

-----------------------------------------------------------------------------
(* The theorems *)

\* The invariant holds at first, and every step of a request, of the secrets, of
\* GitHub and of time preserves it (CoreNext).
LEMMA CoreInvInductive ==
    (CoreInit => CoreInv) /\ (CoreInv /\ [CoreNext]_coreVars => CoreInv')
<1>1. ASSUME CoreInit PROVE CoreInv
  <2>1. Types
    <3>1. TTL \in Nat /\ LoadOf(load).secrets \in [SecretRef -> Value \cup {NoValue}]
      BY <1>1, CoreAssumption DEF CoreInit
    <3> QED BY <1>1, <3>1, SMTT(30) DEF CoreInit, Types
  <2>2. CacheSound
    BY <1>1, EmptySeq DEF CoreInit, CacheSound
  <2>3. RequestsSound
    BY <1>1 DEF CoreInit, RequestsSound, Idle
  <2> QED BY <2>1, <2>2, <2>3 DEF CoreInv
<1>2. ASSUME CoreInv, CoreNext PROVE CoreInv'
  <2>1. ASSUME NEW r \in Request, ServeHTTP(r) \/ CoreStep(r) \/ Returned(r) PROVE CoreInv'
    BY <1>2, <2>1, ServeHTTPInv, CacheHitInv, CacheMissInv, AddToCacheInv, CallEndsInv, FetchSecretInv,
       ListFilesInv, OrgInv, RepoInv, OwnerFileInv DEF CoreStep, Returned
  <2> QED BY <1>2, <2>1, ChangeSecretInv, ChangeGithubInv, TickInv DEF CoreNext
<1> QED BY <1>1, <1>2, StutterInv

LEMMA CoreInvHolds == CoreSpec => []CoreInv
BY CoreInvInductive, PTL DEF CoreSpec

\* An event whose interceptor names a secret goes on only if it was signed with what
\* the secret of its own trigger's namespace held no longer than the cache's time to
\* live before the request came in, however requests, changes of secrets and the
\* entries of the shared cache interleave (SecretGetter.Get, Process).
THEOREM SecretsAreFresh == CoreSpec => []SecretIsFresh
<1>1. CoreInv => SecretIsFresh
  BY DEF CoreInv, RequestsSound, RequestOK, Sound, MayContinue, Fresh, Known, SecretIsFresh, Continued
<1> QED BY <1>1, CoreInvHolds, PTL

\* With the owners check a pull request goes on only if one of the lists that were
\* asked named its sender while it was served, and a comment only if it also says
\* /ok-to-test (checkOwnershipAndMembership, okToTestFromAnOwner).
THEOREM OwnersHaveApproved == CoreSpec => []OwnersApprove
<1>1. CoreInv => OwnersApprove
  <2> SUFFICES ASSUME CoreInv, NEW r \in Request, Continued(r), Call(reqs[r]).path = "github",
                      Call(reqs[r]).params.owners.enabled, ~Call(reqs[r]).params.changed.enabled
               PROVE  /\ Call(reqs[r]).event \in ownersEventTypes => Call(reqs[r]).payload.sender \in reqs[r].members
                      /\ Call(reqs[r]).event = "issue_comment" => Call(reqs[r]).payload.okToTest
    BY DEF OwnersApprove
  <2>1. MayContinue(reqs[r])
    BY DEF CoreInv, RequestsSound, RequestOK, Sound, Continued
  <2> QED BY <2>1 DEF MayContinue, Asks, Says, ownersEventTypes
<1> QED BY <1>1, CoreInvHolds, PTL

=============================================================================
