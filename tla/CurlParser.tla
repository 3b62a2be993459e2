----------------------------- MODULE CurlParser -----------------------------
(***************************************************************************)
(* Reading a curl command line (vetter-core/src/parsers/curl/flags.rs,     *)
(* tokenise, and state.rs): the words of argv become tokens, all of them   *)
(* first; the tokens are absorbed one by one into what is known of the     *)
(* command; and what is known becomes the request, files and signals a     *)
(* person is shown.  Whatever cannot be represented is refused.            *)
(*                                                                         *)
(* A text is [at, text]: "@" before it or not, so that "@file" is told     *)
(* from "file", and the names it is made of, such as <<"dir", "file">>.  A *)
(* word of argv has a form ("dashdash", "long", "short" or "plain"), its   *)
(* raw text, and both readings of what follows a flag's name in the same   *)
(* word: the letters of a cluster, the first one included, and the value.  *)
(* What std and the url crate make of a text is given by the functions     *)
(* below.  A path is [absolute, parts].                                    *)
(***************************************************************************)
EXTENDS CurlFlags, Patterns

CONSTANTS
  UrlOf,     \* the texts that are URLs -> [scheme, host, port, path, query, fragment]
  HeaderOf,  \* the texts that are headers -> [name, chunked, scheme]
  MethodOf,  \* text -> the method, in upper case
  CertOf,    \* text -> [file, password]: what is before ":", and if there is one
  PathOf     \* text -> path

VARIABLES
  words,       \* argv[1..]
  at,          \* the next word, or token, to take
  afterDashes, \* whether "--" was seen
  tokens,      \* what tokenise has emitted
  got,         \* CurlState
  stage,       \* "idle", "tokenise", "absorb", "done"
  outcome      \* [error, parsed]: one of the two is not empty when done

parserVars == <<words, at, afterDashes, tokens, got, stage, outcome>>

Dash   == [at |-> FALSE, text |-> <<"-">>]
AtDash == [at |-> TRUE, text |-> <<"-">>]
Rest(v) == [v EXCEPT !.at = FALSE]

Texts == [at : BOOLEAN, text : Seq(STRING)]

Urls ==
  [scheme : STRING, host : Seq(STRING), port : SUBSET Nat, path : Seq(STRING),
   query : BOOLEAN, fragment : BOOLEAN]

AtMostOne(set) == \A x, y \in set : x = y

(* What argv is made of: a word has room for one value. *)
Words ==
  {word \in [form : {"dashdash", "long", "short", "plain"}, name : STRING,
             letters : Seq(STRING), value : SUBSET Texts, raw : Texts] : AtMostOne(word.value)}

NoError == ""

Tok(id, value) == [id |-> id, value |-> value]

SingleIds == Ids(RequestSpecs \cup FileSpecs)

NothingYet ==
  [opt |-> [id \in SingleIds |-> {}], seen |-> {}, method |-> {}, password |-> FALSE,
   data |-> <<>>, headers |-> <<>>, cookies |-> <<>>, resolve |-> <<>>,
   url |-> {}, extra |-> <<>>, unknown |-> <<>>]

ParserInit ==
  /\ words = <<>> /\ at = 1 /\ afterDashes = FALSE /\ tokens = <<>>
  /\ got = NothingYet
  /\ stage = "idle"
  /\ outcome = [error |-> NoError, parsed |-> {}]

StartParse(argv) ==
  /\ words' = argv /\ at' = 1 /\ afterDashes' = FALSE /\ tokens' = <<>>
  /\ got' = NothingYet
  /\ stage' = "tokenise"
  /\ outcome' = [error |-> NoError, parsed |-> {}]

Refuse(error) ==
  /\ stage' = "done"
  /\ outcome' = [error |-> error, parsed |-> {}]
  /\ UNCHANGED <<words, at, afterDashes, tokens, got>>

-----------------------------------------------------------------------------
(* tokenise *)

Emit(new, taken) ==
  /\ tokens' = tokens \o new
  /\ at' = at + taken
  /\ UNCHANGED <<words, afterDashes, got, stage, outcome>>

(* The value in the word itself, else the next word, whatever it is. *)
TakeValue(spec, given) ==
  IF given # {} THEN Emit(<<Tok(spec.id, given)>>, 1)
  ELSE IF at < Len(words) THEN Emit(<<Tok(spec.id, {words[at + 1].raw})>>, 2)
  ELSE Refuse("MissingArgument")

ReadLong(word) ==
  \/ /\ LookupLong(word.name) = {}
     /\ Emit(<<Tok("unknown", word.value)>>, 1)
  \/ \E spec \in LookupLong(word.name) :
       IF TakesValue(spec) THEN TakeValue(spec, word.value)
       ELSE IF word.value = {} THEN Emit(<<Tok(spec.id, {})>>, 1)
       ELSE Refuse("Other")

LetterToken(c) ==
  Tok(IF LookupShort(c) = {} THEN "unknown" ELSE (CHOOSE spec \in LookupShort(c) : TRUE).id, {})

(* Fault: a cluster counts for its first letter only. *)
ReadShortFirstLetter(word) ==
  \/ /\ LookupShort(word.letters[1]) = {}
     /\ Emit([i \in DOMAIN word.letters |-> Tok("unknown", {})], 1)
  \/ \E spec \in LookupShort(word.letters[1]) :
       IF TakesValue(spec) THEN TakeValue(spec, word.value)
       ELSE Emit(<<LetterToken(word.letters[1])>>, 1)

(* -Xvalue, -X value, or a cluster of flags without values. *)
ReadShort(word) ==
  \/ /\ LookupShort(word.letters[1]) = {}
     /\ Emit([i \in DOMAIN word.letters |-> Tok("unknown", {})], 1)
  \/ \E spec \in LookupShort(word.letters[1]) :
       IF TakesValue(spec) THEN TakeValue(spec, word.value)
       ELSE IF \E i \in DOMAIN word.letters : \E s \in LookupShort(word.letters[i]) : TakesValue(s)
       THEN Refuse("Other")
       ELSE Emit([i \in DOMAIN word.letters |-> LetterToken(word.letters[i])], 1)

(* One word, or two when the first takes the second for its value. *)
TokeniseWord ==
  /\ stage = "tokenise" /\ at <= Len(words)
  /\ LET word == words[at] IN
       \/ /\ ~afterDashes /\ word.form = "dashdash"
          /\ afterDashes' = TRUE /\ at' = at + 1
          /\ UNCHANGED <<words, tokens, got, stage, outcome>>
       \/ /\ afterDashes \/ word.form = "plain"
          /\ Emit(<<Tok("positional", {word.raw})>>, 1)
       \/ ~afterDashes /\ word.form = "long" /\ ReadLong(word)
       \/ ~afterDashes /\ word.form = "short" /\ ReadShort(word)

Tokenised ==
  /\ stage = "tokenise" /\ at > Len(words)
  /\ stage' = "absorb" /\ at' = 1
  /\ UNCHANGED <<words, afterDashes, tokens, got, outcome>>

-----------------------------------------------------------------------------
(* absorb *)

(* classify_data: --data-raw never looks at the "@". *)
Chunk(id, v) ==
  [kind  |-> IF id = "DataRaw" \/ ~v.at THEN "inline" ELSE IF v = AtDash THEN "stdin" ELSE "file",
   value |-> Rest(v)]

(* The texts that mean a stream rather than a file. *)
Streams(id) ==
  CASE id = "DumpHeader"             -> {Dash}
    [] id \in {"Trace", "TraceAscii"} -> {Dash, [at |-> FALSE, text |-> <<"%">>]}
    [] OTHER -> {}

AbsorbError(tok) ==
  LET Is(v) == tok.value = {v}
      NotIn(texts) == \A v \in tok.value : v \notin texts
  IN
  CASE tok.id = "Request" /\ got.method # {} /\ {MethodOf[v] : v \in tok.value} # got.method
         -> "ConflictingArgs"
    [] tok.id = "Header" /\ NotIn(DOMAIN HeaderOf)       -> "Other"
    [] tok.id \in {"Config", "Next", "Form", "FormString"} -> "Other"
    [] tok.id = "UploadFile" /\ Is(Dash)                 -> "StreamingUnsupported"
    [] tok.id \in {"Cookie", "WriteOut"} /\ Is(AtDash)   -> "StreamingUnsupported"
    [] tok.id = "Proxy" /\ NotIn(DOMAIN UrlOf)           -> "Other"
    [] tok.id = "positional" /\ got.url = {} /\ NotIn(DOMAIN UrlOf) -> "Other"
    [] OTHER -> NoError

(* A flag or a positional that was recognised, with its value if any. *)
Absorbed(id, v) ==
  CASE id = "Request"  -> [got EXCEPT !.method = {MethodOf[v]}]
    [] id = "Header"   -> [got EXCEPT !.headers = Append(@, HeaderOf[v])]
    [] id \in DataIds  -> [got EXCEPT !.data = Append(@, Chunk(id, v))]
    [] id = "Resolve"  -> [got EXCEPT !.resolve = Append(@, v)]
    [] id = "Cookie"   -> [got EXCEPT !.cookies = Append(@, v)]
    [] id = "Pass"     -> [got EXCEPT !.password = TRUE]
    [] id = "Cert"     -> [got EXCEPT !.opt["Cert"] = {CertOf[v].file},
                                      !.password = @ \/ CertOf[v].password]
    [] id = "WriteOut" -> [got EXCEPT !.opt["WriteOut"] = IF v.at THEN {Rest(v)} ELSE {}]
    [] id = "positional" /\ got.url = {} -> [got EXCEPT !.url = {UrlOf[v]}]
    [] id = "positional" /\ got.url # {} -> [got EXCEPT !.extra = Append(@, v)]
    [] OTHER           -> [got EXCEPT !.opt[id] = {v} \ Streams(id)]

AbsorbToken ==
  /\ stage = "absorb" /\ at <= Len(tokens)
  /\ LET tok == tokens[at] IN
       IF AbsorbError(tok) # NoError THEN Refuse(AbsorbError(tok))
       ELSE /\ \/ \E v \in tok.value : tok.id # "unknown" /\ got' = Absorbed(tok.id, v)
               \/ tok.id = "unknown" /\ got' = [got EXCEPT !.unknown = Append(@, tok.value)]
               \/ tok.id \in Ids(BoolSpecs) /\ got' = [got EXCEPT !.seen = @ \cup {tok.id}]
            /\ at' = at + 1
            /\ UNCHANGED <<words, afterDashes, tokens, stage, outcome>>
=============================================================================
