-------------------------- MODULE CoreInterceptors --------------------------
(***************************************************************************)
(* The server of the core interceptors: ServeHTTP and ExecuteInterceptor   *)
(* of pkg/interceptors/server, Process of the github, gitlab, bitbucket,   *)
(* slack and cel interceptors, and the secrets they share.  Requests are   *)
(* served concurrently.  A step of a request ends where the code calls     *)
(* the cache, the API server or GitHub; secrets and GitHub may change      *)
(* between any two steps.                                                  *)
(*                                                                         *)
(* Optional values are sets of at most one element.  A signature is the    *)
(* secret it was made with, and a payload is the set of the sections that  *)
(* the code looks for, with the values it takes from them.                 *)
(***************************************************************************)
EXTENDS SecretGetter, CELFunctions

CONSTANTS
    Request,       \* connections of the server
    CallOf(_),     \* the HTTP request with a given name
    Loads,         \* what may come in: LoadOf(l) has in calls[r] the names of the requests
    LoadOf(_),     \* that connection r receives, the secrets and GitHub at first, and
                   \* bounds on requests, time, changes and failed calls
    User,
    GithubStates,  \* what GitHub may say about members and files
    NoValue,       \* a missing signature, or a secret without the key
    Timeout        \* of the context of a request

\* Secrets that interceptors name, and filters, are optional values
ASSUME CoreAssumption ==
    /\ NoValue \notin Value /\ TTL \in Nat
    /\ \A l \in Loads : LoadOf(l).secrets \in [SecretRef -> Value \cup {NoValue}]
    /\ \A l \in Loads, r \in Request : \A c \in LoadOf(l).calls[r] :
          /\ \A a, b \in CallOf(c).params.secretRef : a = b
          /\ \A f, g \in CallOf(c).params.filter : f = g

VARIABLES
    load,     \* the index of the load that the server is under
    secrets,  \* [SecretRef -> Value \cup {NoValue}], in the API server
    lost,     \* [SecretRef -> [Value -> when the secret last ceased to hold it]]
    cache,
    now,
    github,   \* [org, repo, owners: SUBSET User, pages: Seq(Seq(file))]
    reqs,     \* [Request -> how far a request is]
    served,   \* how many requests have come in
    changes, errors

coreVars == <<load, secrets, lost, cache, now, github, reqs, served, changes, errors>>

\* The HTTP request that is being served
Call(q) == CallOf(q.call)

NoExt == <<>>
NoRef == <<"none", "none", "none">>

-----------------------------------------------------------------------------
(* Answers *)

Continue(q, ext) ==
    [q EXCEPT !.pc = "done", !.answer = [status |-> 200, continue |-> TRUE, code |-> "OK", ext |-> ext]]

Fail(q, code) ==
    [q EXCEPT !.pc = "done", !.answer = [status |-> 200, continue |-> FALSE, code |-> code, ext |-> NoExt]]

\* badRequest and internal; with status 0 the handler panicked and no answer was sent
ServeError(q, status) ==
    [q EXCEPT !.pc = "done", !.answer = [status |-> status, continue |-> FALSE, code |-> "none", ext |-> NoExt]]

\* The code of the first of the checks that refuses
Refusal(checks) ==
    LET Refuses(i) == i \in DOMAIN checks /\ checks[i][1]
    IN  checks[CHOOSE i \in DOMAIN checks : Refuses(i) /\ \A j \in 1..(i - 1) : ~Refuses(j)][2]

Unless(q, checks, next) ==
    IF \E i \in DOMAIN checks : checks[i][1] THEN Fail(q, Refusal(checks)) ELSE next

\* namespaces/ns/triggers/name; any other form has no namespace
ParseTriggerID(id) == IF Len(id) = 4 THEN id[2] ELSE ""

\* SecretGetter.Get, to be followed by what purpose says
GetSecret(q, purpose, refs) ==
    LET ns == ParseTriggerID(CHOOSE id \in Call(q).context : TRUE)
        sr == CHOOSE r \in refs : TRUE
    IN  [q EXCEPT !.pc = "cache", !.purpose = purpose, !.ref = CacheKey(ns, sr)]

-----------------------------------------------------------------------------
(* GitHub: changed files *)

acceptedEventTypes == {"pull_request", "push"}

\* A client for an enterprise host whose name makes no URL cannot be made
makeClient(c) == c.enterprise # "not a host"

\* A full name without a slash makes the index of strings.Split panic
ParsesBody(c, sections) == sections \subseteq c.payload.has

parseBodyForChangedFiles(c) ==
    /\ ParsesBody(c, {"json", "repository", "full_name"}
                        \cup (IF c.event = "pull_request" THEN {"number"} ELSE {}))
    /\ c.payload.commits # <<>> => "commit files" \in c.payload.has

PayloadFiles(c) ==
    FlattenSeq([i \in DOMAIN c.payload.commits |->
        c.payload.commits[i].added \o c.payload.commits[i].modified \o c.payload.commits[i].removed])

\* A pull request's files are listed page by page, a push has them in its payload
AddChangedFiles(q) ==
    IF ~parseBodyForChangedFiles(Call(q)) THEN Fail(q, "FailedPrecondition")
    ELSE IF "slash" \notin Call(q).payload.has THEN ServeError(q, 0)
    ELSE IF Call(q).event = "pull_request" /\ ~makeClient(Call(q)) THEN Fail(q, "FailedPrecondition")
    ELSE IF Call(q).event = "pull_request" THEN [q EXCEPT !.pc = "list"]
    ELSE Continue(q, [changed_files |-> PayloadFiles(Call(q))])

getGithubTokenSecret(q, refs) ==
    IF refs = {} THEN AddChangedFiles(q)
    ELSE Unless(q, << <<\E sr \in refs : sr.secretKey = "", "FailedPrecondition">> >>,
                GetSecret(q, "changed files", refs))

ChangedFilesStage(q) ==
    IF Call(q).event \notin acceptedEventTypes THEN Continue(q, NoExt)
    ELSE Unless(q, << <<Call(q).context = {}, "InvalidArgument">> >>,
                getGithubTokenSecret(q, Call(q).params.changed.token))

-----------------------------------------------------------------------------
(* GitHub: owners *)

ownersEventTypes == {"pull_request", "issue_comment"}

parseBodyForOwners(c) ==
    ParsesBody(c, {"json", "repository", "full_name", "sender"}
                     \cup (IF c.event = "pull_request" THEN {"number"}
                           ELSE {"issue", "issue number", "comment", "comment body"}))

CheckType(q) == Call(q).params.owners.checkType

\* checkOwnershipAndMembership asks in the order org, repo, OWNERS file
CheckOwnership(q, round) ==
    [q EXCEPT !.round = round,
              !.pc = IF CheckType(q) \in {"orgMembers", "all"} THEN "org"
                     ELSE IF CheckType(q) = "repoMembers" THEN "repo" ELSE "file"]

\* MatchRegexp on the comment, which only an issue_comment has
okToTestFromAnOwner(q) ==
    IF Call(q).event = "issue_comment" /\ Call(q).payload.okToTest
    THEN CheckOwnership(q, 2) ELSE Fail(q, "FailedPrecondition")

\* Mutant: the first check decides for comments as well
OwnedOnce(q, allowed) ==
    IF allowed THEN Continue(q, NoExt) ELSE okToTestFromAnOwner(q)

Owned(q, allowed) ==
    IF q.round = 2 THEN IF allowed THEN Continue(q, NoExt) ELSE Fail(q, "FailedPrecondition")
    ELSE IF allowed /\ Call(q).event = "pull_request" THEN Continue(q, NoExt)
    ELSE okToTestFromAnOwner(q)

CheckOwners(q) ==
    IF ~makeClient(Call(q)) \/ ~parseBodyForOwners(Call(q)) THEN Fail(q, "FailedPrecondition")
    ELSE IF "slash" \notin Call(q).payload.has THEN ServeError(q, 0)
    ELSE CheckOwnership(q, 1)

getPersonalAccessTokenSecret(q, refs) ==
    IF refs = {}
    THEN Unless(q, << <<CheckType(q) # "none", "FailedPrecondition">> >>, CheckOwners(q))
    ELSE Unless(q, << <<\E sr \in refs : sr.secretKey = "", "FailedPrecondition">>,
                      <<Call(q).context = {}, "FailedPrecondition">> >>,
                GetSecret(q, "owners", refs))

OwnersStage(q) ==
    IF Call(q).event \notin ownersEventTypes THEN Continue(q, NoExt)
    ELSE getPersonalAccessTokenSecret(q, Call(q).params.owners.token)

\* Process after the signature: with changed files there is no owners check
AfterSignature(q) ==
    IF Call(q).params.changed.enabled THEN ChangedFilesStage(q)
    ELSE IF Call(q).params.owners.enabled THEN OwnersStage(q)
    ELSE Continue(q, NoExt)

-----------------------------------------------------------------------------
(* CEL *)

\* An expression is a literal, a variable, or a function of such
Atom(e, env) == IF "lit" \in DOMAIN e THEN e.lit ELSE env[e.var]

evaluate(e, env) ==
    IF "fn" \in DOMAIN e THEN Apply(e.fn, [i \in DOMAIN e.args |-> Atom(e.args[i], env)])
    ELSE Atom(e, env)

\* An empty body is {}
makeEvalContext(c) ==
    [v \in DOMAIN c.vars |-> IF v = "body" /\ "empty" \in c.payload.has THEN [map |-> <<>>] ELSE c.vars[v]]

\* Null has no conversion to bytes; sjson refuses an empty key
OverlayChecks(o, env) ==
    << <<Type(evaluate(o.expression, env)) = "error", "InvalidArgument">>,
       <<Type(evaluate(o.expression, env)) = "null", "Internal">>,
       <<o.key = "", "Internal">> >>

\* Mutant: a key that has been written is kept
OverlaysKept(overlays, env) ==
    FoldLeft(LAMBDA ext, o : [k \in DOMAIN ext \cup {o.key} |->
                                 IF k \in DOMAIN ext THEN ext[k] ELSE JSONValue(evaluate(o.expression, env))],
             NoExt, overlays)

\* Overlays are evaluated in their order, all on the original request, and written one after the other
ApplyOverlays(overlays, env) ==
    FoldLeft(LAMBDA ext, o : [k \in DOMAIN ext \cup {o.key} |->
                                 IF k = o.key THEN JSONValue(evaluate(o.expression, env)) ELSE ext[k]],
             NoExt, overlays)

Overlays(q) ==
    LET env == makeEvalContext(Call(q))
    IN  Unless(q, FlattenSeq([i \in DOMAIN Call(q).params.overlays |-> OverlayChecks(Call(q).params.overlays[i], env)]),
               Continue(q, ApplyOverlays(Call(q).params.overlays, env)))

\* A filter is an expression, or compareSecret with its text and secret; the
\* namespace of the latter is always the trigger's
CelProcess(q) ==
    LET c == Call(q)
        env == makeEvalContext(c)
        Compares(f) == "compare" \in DOMAIN f
    IN  Unless(q, << <<~c.paramsParse, "InvalidArgument">>,
                     <<c.context = {}, "InvalidArgument">>,
                     <<c.payload.has \cap {"json", "empty"} = {}, "InvalidArgument">>,
                     <<\E f \in c.params.filter : ~Compares(f) /\ Type(evaluate(f, env)) = "error", "InvalidArgument">>,
                     <<\E f \in c.params.filter : ~Compares(f) /\ evaluate(f, env) # Bool(TRUE), "FailedPrecondition">> >>,
               IF \E f \in c.params.filter : Compares(f)
               THEN GetSecret(q, "compare", {f.secretRef : f \in c.params.filter})
               ELSE Overlays(q))

-----------------------------------------------------------------------------
(* Process of each interceptor, up to its first call *)

\* The allow-list of event types; nil allows all of them
NotAllowed(c, event) == \E allowed \in c.params.eventTypes : event \notin allowed

SecretRefChecks(c, noHeader) ==
    << <<\E sr \in c.params.secretRef : sr.secretKey = "", "FailedPrecondition">>,
       <<c.params.secretRef # {} /\ c.signature = NoValue, noHeader>>,
       <<c.params.secretRef # {} /\ c.context = {}, "InvalidArgument">> >>

GithubProcess(q) ==
    Unless(q, << <<Call(q).form, "InvalidArgument">>,
                 <<~Call(q).paramsParse, "InvalidArgument">>,
                 <<NotAllowed(Call(q), Call(q).event), "FailedPrecondition">> >>
              \o SecretRefChecks(Call(q), "FailedPrecondition"),
           IF Call(q).params.secretRef = {} THEN AfterSignature(q)
           ELSE GetSecret(q, "signature", Call(q).params.secretRef))

GitlabProcess(q) ==
    Unless(q, << <<~Call(q).paramsParse, "InvalidArgument">>,
                 <<NotAllowed(Call(q), Call(q).event), "FailedPrecondition">> >>
              \o SecretRefChecks(Call(q), "InvalidArgument"),
           IF Call(q).params.secretRef = {} THEN Continue(q, NoExt)
           ELSE GetSecret(q, "signature", Call(q).params.secretRef))

\* The event type is looked up in the headers as they were sent
BitbucketProcess(q) ==
    Unless(q, << <<~Call(q).paramsParse, "InvalidArgument">>,
                 <<NotAllowed(Call(q), IF Call(q).canonical THEN Call(q).event ELSE ""), "FailedPrecondition">> >>
              \o SecretRefChecks(Call(q), "InvalidArgument"),
           IF Call(q).params.secretRef = {} THEN Continue(q, NoExt)
           ELSE GetSecret(q, "signature", Call(q).params.secretRef))

SlackProcess(q) ==
    LET c == Call(q)
        wanted == UNION c.params.requestedFields
    IN  Unless(q, << <<~c.form, "InvalidArgument">>,
                     <<c.signature = NoValue, "InvalidArgument">>,
                     <<"json" \notin c.payload.has, "InvalidArgument">>,
                     <<~c.paramsParse, "InvalidArgument">>,
                     <<c.params.requestedFields = {}, "NotFound">>,
                     <<~(wanted \subseteq DOMAIN c.payload.fields), "NotFound">> >>,
               Continue(q, [f \in wanted |-> c.payload.fields[f]]))

\* RegisterInterceptor: the paths that NewWithCoreInterceptors serves
interceptors == {"bitbucket", "cel", "github", "gitlab", "slack"}

ExecuteInterceptor(q) ==
    IF Call(q).path \notin interceptors THEN ServeError(q, 400)
    ELSE IF ~Call(q).readable THEN ServeError(q, 500)
    ELSE IF ~Call(q).decodes THEN ServeError(q, 400)
    ELSE CASE Call(q).path = "github"    -> GithubProcess(q)
           [] Call(q).path = "gitlab"    -> GitlabProcess(q)
           [] Call(q).path = "bitbucket" -> BitbucketProcess(q)
           [] Call(q).path = "slack"     -> SlackProcess(q)
           [] Call(q).path = "cel"       -> CelProcess(q)

-----------------------------------------------------------------------------
(* With a secret in hand *)

\* ValidateSignature, and the comparison of tokens
Validate(q, value) ==
    IF Call(q).signature # value
    THEN Fail(q, IF Call(q).path = "gitlab" THEN "InvalidArgument" ELSE "FailedPrecondition")
    ELSE IF Call(q).path = "github" THEN AfterSignature(q) ELSE Continue(q, NoExt)

\* compareSecret as the filter
CompareSecret(q, value) ==
    IF \E f \in Call(q).params.filter : f.compare = value THEN Overlays(q) ELSE Fail(q, "FailedPrecondition")

Got(q, value) ==
    CASE q.purpose = "signature"     -> Validate(q, value)
      [] q.purpose = "compare"       -> CompareSecret(q, value)
      [] q.purpose = "changed files" -> AddChangedFiles(q)
      [] q.purpose = "owners"        -> CheckOwners(q)

\* An error from the API server or from GitHub; in a CEL program it is an evaluation error
CallError(q) == Fail(q, IF q.purpose = "compare" THEN "InvalidArgument" ELSE "FailedPrecondition")

-----------------------------------------------------------------------------
(* The server *)

\* Those that one of the checks of an owners check would accept
Approved(g, checkType) ==
    (IF checkType \in {"orgMembers", "all"} THEN g.org ELSE {})
    \cup (IF checkType \in {"repoMembers", "all"} THEN g.repo ELSE {}) \cup g.owners

\* members and prs are history: who was approved, and which files the pull
\* request had, while the request is served
Arrived(c) ==
    [pc |-> "process", call |-> c, start |-> now, purpose |-> "none", ref |-> NoRef, value |-> NoValue,
     round |-> 0, page |-> 1, files |-> <<>>, members |-> Approved(github, CallOf(c).params.owners.checkType),
     prs |-> {github.pages}, answer |-> {}]

Idle ==
    [pc |-> "idle", call |-> <<>>, start |-> 0, purpose |-> "none", ref |-> NoRef, value |-> NoValue,
     round |-> 0, page |-> 1, files |-> <<>>, members |-> {}, prs |-> {}, answer |-> {}]

CoreInit ==
    /\ load \in Loads
    /\ secrets = LoadOf(load).secrets
    /\ lost = [s \in SecretRef |-> [v \in Value |-> 0 - TTL - 1]]
    /\ cache = <<>>
    /\ now = 0
    /\ github = LoadOf(load).github
    /\ served = 0
    /\ reqs = [r \in Request |-> Idle]
    /\ changes = 0
    /\ errors = 0

Becomes(r, q) == reqs' = [reqs EXCEPT ![r] = q]

\* A request comes in and runs to its first call
ServeHTTP(r) ==
    /\ reqs[r].pc \in {"idle", "done"}
    /\ served < LoadOf(load).requests /\ now <= LoadOf(load).time
    /\ served' = served + 1
    /\ \E c \in LoadOf(load).calls[r] : Becomes(r, ExecuteInterceptor(Arrived(c)))
    /\ UNCHANGED <<load, secrets, lost, cache, now, github, changes, errors>>

\* Mutant: each use of an entry renews its time to live
CacheHitRenews(r) ==
    LET q == reqs[r]
        hit == Hit(cache, q.ref, now)
    IN  /\ q.pc = "cache"
        /\ \E e \in hit : /\ Becomes(r, Got(q, e.value))
                         /\ cache' = LRUAdd(cache, q.ref, e.value, now)
        /\ UNCHANGED <<load, served, secrets, lost, now, github, changes, errors>>

\* Get finds the secret in the cache, and the request goes on with it
CacheHit(r) ==
    LET q == reqs[r]
        hit == Hit(cache, q.ref, now)
    IN  /\ q.pc = "cache"
        /\ \E e \in hit : Becomes(r, Got(q, e.value))
        /\ cache' = LRUGet(cache, q.ref, now)
        /\ UNCHANGED <<load, served, secrets, lost, now, github, changes, errors>>

CacheMiss(r) ==
    LET q == reqs[r]
    IN  /\ q.pc = "cache"
        /\ Hit(cache, q.ref, now) = {}
        /\ Becomes(r, [q EXCEPT !.pc = "fetch"])
        /\ cache' = LRUGet(cache, q.ref, now)
        /\ UNCHANGED <<load, served, secrets, lost, now, github, changes, errors>>

\* Mutant: the context has no deadline
InTimeAlways(q) == now \in Int

\* Calls of the API server and of GitHub fail once the request's context has ended
InTime(q) == now < q.start + Timeout

\* A secret that is not there, or has no such key, is an error, and is not cached
FetchSecret(r) ==
    LET q == reqs[r]
        missing == q.ref \notin SecretRef \/ secrets[q.ref] = NoValue
    IN  /\ q.pc = "fetch"
        /\ InTime(q)
        /\ Becomes(r, IF missing THEN CallError(q) ELSE [q EXCEPT !.pc = "add", !.value = secrets[q.ref]])
        /\ UNCHANGED <<load, served, secrets, lost, cache, now, github, changes, errors>>

AddToCache(r) ==
    LET q == reqs[r]
    IN  /\ q.pc = "add"
        /\ cache' = LRUAdd(cache, q.ref, q.value, now)
        /\ Becomes(r, Got([q EXCEPT !.value = NoValue], q.value))
        /\ UNCHANGED <<load, served, secrets, lost, now, github, changes, errors>>

\* One page of getChangedFilesFromPr
ListFiles(r) ==
    LET q == reqs[r]
        page == IF q.page \in DOMAIN github.pages THEN github.pages[q.page] ELSE <<>>
        all == q.files \o page
    IN  /\ q.pc = "list"
        /\ InTime(q)
        /\ Becomes(r, IF q.page < Len(github.pages) THEN [q EXCEPT !.files = all, !.page = @ + 1]
                      ELSE Continue([q EXCEPT !.files = <<>>, !.page = 1], [changed_files |-> all]))
        /\ UNCHANGED <<load, served, secrets, lost, cache, now, github, changes, errors>>

\* An organisation that is not found has no members
checkSenderOrgMembership(r) ==
    LET q == reqs[r]
    IN  /\ q.pc = "org"
        /\ InTime(q)
        /\ Becomes(r, IF Call(q).payload.sender \in github.org THEN Owned(q, TRUE)
                      ELSE [q EXCEPT !.pc = IF CheckType(q) = "all" THEN "repo" ELSE "file"])
        /\ UNCHANGED <<load, served, secrets, lost, cache, now, github, changes, errors>>

checkSenderRepoMembership(r) ==
    LET q == reqs[r]
    IN  /\ q.pc = "repo"
        /\ InTime(q)
        /\ Becomes(r, IF Call(q).payload.sender \in github.repo THEN Owned(q, TRUE) ELSE [q EXCEPT !.pc = "file"])
        /\ UNCHANGED <<load, served, secrets, lost, cache, now, github, changes, errors>>

\* getContentFromOwners and userInOwnerFile; a missing file names nobody
userInOwnerFile(r) ==
    LET q == reqs[r]
    IN  /\ q.pc = "file"
        /\ InTime(q)
        /\ Becomes(r, Owned(q, Call(q).payload.sender \in github.owners))
        /\ UNCHANGED <<load, served, secrets, lost, cache, now, github, changes, errors>>

Calling == {"fetch", "list", "org", "repo", "file"}

CallFails(r) ==
    LET q == reqs[r]
    IN  /\ q.pc \in Calling
        /\ InTime(q)
        /\ errors < LoadOf(load).errors
        /\ errors' = errors + 1
        /\ Becomes(r, CallError(q))
        /\ UNCHANGED <<load, served, secrets, lost, cache, now, github, changes>>

\* A call still waiting returns with the context's error
CallExpires(r) ==
    LET q == reqs[r]
    IN  /\ q.pc \in Calling
        /\ ~InTime(q)
        /\ Becomes(r, CallError(q))
        /\ UNCHANGED <<load, served, secrets, lost, cache, now, github, changes, errors>>

\* What the request's goroutine does by itself
CoreStep(r) == CacheHit(r) \/ CacheMiss(r) \/ AddToCache(r) \/ CallExpires(r)

\* What happens when the API server or GitHub answers
Returned(r) ==
    \/ FetchSecret(r) \/ ListFiles(r) \/ CallFails(r)
    \/ checkSenderOrgMembership(r) \/ checkSenderRepoMembership(r) \/ userInOwnerFile(r)

-----------------------------------------------------------------------------
(* The environment *)

\* A secret is changed or loses its key
ChangeSecret(s, v) ==
    /\ changes < LoadOf(load).changes
    /\ v # secrets[s]
    /\ secrets' = [secrets EXCEPT ![s] = v]
    /\ lost' = IF secrets[s] = NoValue THEN lost ELSE [lost EXCEPT ![s][secrets[s]] = now]
    /\ changes' = changes + 1
    /\ UNCHANGED <<load, served, cache, now, github, reqs, errors>>

Serving(r) == reqs[r].pc \notin {"idle", "done"}

ChangeGithub(g) ==
    /\ changes < LoadOf(load).changes
    /\ g # github
    /\ github' = g
    /\ changes' = changes + 1
    /\ reqs' = [r \in Request |-> IF ~Serving(r) THEN reqs[r] ELSE
                  [reqs[r] EXCEPT !.members = @ \cup Approved(g, CheckType(reqs[r])),
                                  !.prs = @ \cup {g.pages}]]
    /\ UNCHANGED <<load, served, secrets, lost, cache, now, errors>>

\* No time passes between an answer of the API server and the cache's Add
Tick ==
    /\ now < LoadOf(load).time \/ \E r \in Request : reqs[r].pc \in Calling /\ now < reqs[r].start + Timeout
    /\ \A r \in Request : reqs[r].pc # "add"
    /\ now' = now + 1
    /\ UNCHANGED <<load, served, secrets, lost, cache, github, reqs, changes, errors>>

CoreNext ==
    \/ \E r \in Request : ServeHTTP(r) \/ CoreStep(r) \/ Returned(r)
    \/ \E s \in SecretRef, v \in Value \cup {NoValue} : ChangeSecret(s, v)
    \/ \E g \in GithubStates : ChangeGithub(g)
    \/ Tick

CoreSpec == CoreInit /\ [][CoreNext]_coreVars

\* The goroutine of a request runs and time passes. No call is assumed to return before
\* the context ends.
CoreFairness == WF_coreVars(Tick) /\ \A r \in Request : WF_coreVars(CoreStep(r))

-----------------------------------------------------------------------------
(* Properties *)

CoreTypeOK ==
    /\ load \in Loads
    /\ secrets \in [SecretRef -> Value \cup {NoValue}]
    /\ lost \in [SecretRef -> [Value -> Int]]
    /\ Len(cache) <= CacheSize
    /\ \A i, j \in DOMAIN cache : cache[i].key = cache[j].key => i = j
    /\ served \in 0..LoadOf(load).requests
    /\ now \in 0 .. LoadOf(load).time + Timeout /\ changes \in 0..LoadOf(load).changes /\ errors \in 0..LoadOf(load).errors
    /\ \A r \in Request : reqs[r].pc \in Calling \cup {"idle", "cache", "add", "done"}

Continued(r) == reqs[r].pc = "done" /\ reqs[r].answer.continue

\* A secret holds a value now, or did so at time t or later
HeldSince(s, v, t) == s \in SecretRef /\ v # NoValue /\ (secrets[s] = v \/ lost[s][v] >= t)

\* What a request's secret is compared with
Presented(c) ==
    IF c.path = "cel" THEN {<<f.secretRef, f.compare>> : f \in {g \in c.params.filter : "compare" \in DOMAIN g}}
    ELSE IF c.path = "slack" THEN {}
    ELSE {<<sr, c.signature>> : sr \in c.params.secretRef}

\* An event whose interceptor names a secret goes on only if it was signed with
\* what that secret, in the namespace of its own trigger, held no longer than the
\* cache's time to live before the request came in (SecretGetter.Get, Process).
SecretIsFresh ==
    \A r \in Request : Continued(r) =>
        \A p \in Presented(Call(reqs[r])) : \E id \in Call(reqs[r]).context :
            HeldSince(CacheKey(ParseTriggerID(id), p[1]), p[2], reqs[r].start - TTL)

\* With the owners check, and no list of changed files, a pull request goes on only
\* if its sender was approved while it was served, and a comment only if it also
\* says /ok-to-test (checkOwnershipAndMembership, okToTestFromAnOwner).
OwnersApprove ==
    \A r \in Request :
        LET c == Call(reqs[r])
        IN  Continued(r) /\ c.path = "github" /\ c.params.owners.enabled /\ ~c.params.changed.enabled
                => /\ c.event \in ownersEventTypes => c.payload.sender \in reqs[r].members
                   /\ c.event = "issue_comment" => c.payload.okToTest

\* The files of a pull request that did not change meanwhile are handed on whole and
\* in order, however many pages GitHub makes of them (getChangedFilesFromPr).
ChangedFilesComplete ==
    \A r \in Request :
        Continued(r) /\ Call(reqs[r]).path = "github" /\ Call(reqs[r]).event = "pull_request"
            /\ Call(reqs[r]).params.changed.enabled
        => \A pages \in reqs[r].prs :
               reqs[r].prs = {pages} => reqs[r].answer.ext = [changed_files |-> FlattenSeq(pages)]

\* A CEL interceptor hands on all of its overlays or none: under each key the value,
\* as JSON has it, of the last overlay of that key, computed from the request alone
\* (the loop of Process in cel.go).
OverlaysWhole ==
    \A r \in Request :
        LET c == Call(reqs[r])
            overlays == c.params.overlays
            ext == reqs[r].answer.ext
        IN  Continued(r) /\ c.path = "cel" =>
                /\ DOMAIN ext = {overlays[i].key : i \in DOMAIN overlays}
                /\ \A i \in DOMAIN overlays :
                       (\A j \in DOMAIN overlays : j > i => overlays[j].key # overlays[i].key)
                       => ext[overlays[i].key] = JSONValue(evaluate(overlays[i].expression, makeEvalContext(c)))

\* Every request is answered, even when the API server or GitHub fails or never answers:
\* the context that ServeHTTP makes ends every call (ExecuteInterceptor).
Answered == \A r \in Request : []<>~Serving(r)

\* What an interceptor hands on to the bindings is whole: all of the changed files, all of
\* the overlays (getChangedFilesFromPr, Process of cel.go).
ExtensionsWhole == ChangedFilesComplete /\ OverlaysWhole
=============================================================================
