---------------------------- MODULE CELFunctions ----------------------------
(***************************************************************************)
(* The functions that pkg/interceptors/cel/triggers.go adds to CEL.        *)
(*                                                                         *)
(* A CEL value is a record with one field that is named for its type.      *)
(* Text is a sequence of symbols, which are such records too: a character  *)
(* [char |-> "a"], a document [json |-> v] or [yaml |-> v] that decodes to *)
(* v, a URL [url |-> its parts], or the name of a header [header |-> k]    *)
(* with k a pair of a name and its spelling, "canonical" or "other".       *)
(***************************************************************************)
EXTENDS Integers, Sequences, FiniteSets, SequencesExt

Str(s) == [text |-> s]
Bool(b) == [bool |-> b]
Null == [null |-> 0]
Err == [error |-> 0]
Type(v) == CHOOSE t \in DOMAIN v : TRUE

\* Overloads declared to the checker: what each function takes and returns.
\* A header is a map of lists of strings, and CEL knows it as a map only.
CompileOptions ==
    [match         |-> {<<"map", "text", "text">>},
     canonical     |-> {<<"map", "text">>},
     truncate      |-> {<<"text", "int">>},
     compareSecret |-> {<<"text", "text", "text">>, <<"text", "text", "text", "text">>},
     parseJSON     |-> {<<"text">>},
     parseYAML     |-> {<<"text">>},
     parseURL      |-> {<<"text">>},
     marshalJSON   |-> {<<"map">>, <<"list">>},
     last          |-> {<<"list">>},
     first         |-> {<<"list">>},
     translate     |-> {<<"text", "text", "text">>}]

Char(c) == [char |-> c]

CanonicalHeaderKey(k) == <<k[1], "canonical">>

\* Get of http.Header: the first value under the canonical name, or no text
HeaderGet(h, k) ==
    LET key == CanonicalHeaderKey(k)
    IN  IF key \in DOMAIN h /\ h[key] # <<>> THEN Head(h[key]) ELSE <<>>

\* Only a map whose values are all lists converts to http.Header
IsHeader(m) == \A k \in DOMAIN m.map : Type(m.map[k]) = "list"

HeaderOf(m) == [k \in DOMAIN m.map |-> [i \in DOMAIN m.map[k].list |-> m.map[k].list[i].text]]

matchHeader(m, key, val) ==
    IF IsHeader(m) THEN Bool(HeaderGet(HeaderOf(m), Head(key.text).header) = val.text) ELSE Err

canonicalHeader(m, key) ==
    IF IsHeader(m) THEN Str(HeaderGet(HeaderOf(m), Head(key.text).header)) ELSE Err

\* max returns the smaller of the two
max(x, y) == IF x <= y THEN x ELSE y

\* A negative length panics in the slice expression; Eval returns that as an error
truncateString(str, n) ==
    LET len == max(n.int, Len(str.text))
    IN  IF len < 0 THEN Err ELSE Str(SubSeq(str.text, 1, len))

\* encoding/json: numbers are decoded as doubles
JSONValue(v) ==
    CASE Type(v) = "int"  -> [double |-> v.int]
      [] Type(v) = "list" -> [list |-> [i \in DOMAIN v.list |->
                                 IF Type(v.list[i]) = "int" THEN [double |-> v.list[i].int] ELSE v.list[i]]]
      [] OTHER -> v

\* What a text decodes to; YAML includes JSON
Decoded(str, formats) ==
    IF Len(str.text) = 1 /\ Type(Head(str.text)) \in formats
    THEN Head(str.text)[Type(Head(str.text))]
    ELSE Err

\* A document decodes into a map of strings to values, and nothing else
parseJSONString(str) ==
    LET v == Decoded(str, {"json"}) IN IF Type(v) = "map" THEN v ELSE Err

parseYAMLString(str) ==
    LET v == Decoded(str, {"json", "yaml"}) IN IF Type(v) = "map" THEN v ELSE Err

marshalJSON(val) ==
    Str(<<[json |-> CASE Type(val) = "map"  -> [map |-> [k \in DOMAIN val.map |-> JSONValue(val.map[k])]]
                      [] Type(val) = "list" -> JSONValue(val)]>>)

\* The values of one key of a query, joined by commas
flatten(query) ==
    [k \in DOMAIN query |->
        Str(Head(query[k]) \o FlattenSeq([i \in 1..(Len(query[k]) - 1) |-> <<Char(",")>> \o query[k][i + 1]]))]

\* The parts of a URL as a map; auth is there only if the URL names a user
urlToMap(u) ==
    LET parts == [scheme |-> Str(u.scheme), host |-> Str(u.host), path |-> Str(u.path),
                  queryStrings |-> [map |-> [k \in DOMAIN u.query |->
                                       [list |-> [i \in DOMAIN u.query[k] |-> Str(u.query[k][i])]]]],
                  query |-> [map |-> flatten(u.query)]]
    IN  [k \in DOMAIN parts \cup (IF u.user = {} THEN {} ELSE {"auth"}) |->
            IF k = "auth" THEN [map |-> CHOOSE user \in u.user : TRUE] ELSE parts[k]]

parseURLString(str) ==
    LET u == Decoded(str, {"url"}) IN IF Type(u) = "error" THEN Err ELSE [map |-> urlToMap(u)]

listLast(val) == IF val.list = <<>> THEN Null ELSE Last(val.list)

listFirst(val) == IF val.list = <<>> THEN Null ELSE Head(val.list)

\* Regular expressions are sets of characters here; "[" alone does not compile
translateString(src, regstr, repl) ==
    IF regstr.text = <<Char("[")>> THEN Err
    ELSE Str(FlattenSeq([i \in DOMAIN src.text |->
                IF src.text[i] \in {regstr.text[j] : j \in DOMAIN regstr.text} THEN repl.text ELSE <<src.text[i]>>]))

\* A call with its arguments: the checker refuses one that has no overload
Apply(fn, args) ==
    IF \E i \in DOMAIN args : Type(args[i]) = "error" THEN Err
    ELSE IF [i \in DOMAIN args |-> Type(args[i])] \notin CompileOptions[fn] THEN Err
    ELSE CASE fn = "match"       -> matchHeader(args[1], args[2], args[3])
           [] fn = "canonical"   -> canonicalHeader(args[1], args[2])
           [] fn = "truncate"    -> truncateString(args[1], args[2])
           [] fn = "parseJSON"   -> parseJSONString(args[1])
           [] fn = "parseYAML"   -> parseYAMLString(args[1])
           [] fn = "parseURL"    -> parseURLString(args[1])
           [] fn = "marshalJSON" -> marshalJSON(args[1])
           [] fn = "last"        -> listLast(args[1])
           [] fn = "first"       -> listFirst(args[1])
           [] fn = "translate"   -> translateString(args[1], args[2], args[3])
=============================================================================
