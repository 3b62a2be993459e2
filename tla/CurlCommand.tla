---------------------------- MODULE CurlCommand ----------------------------
(***************************************************************************)
(* What the words of a curl command amount to                              *)
(* (vetter-core/src/parsers/curl/state.rs, finalise): one HTTP request,    *)
(* the files it reads and writes, and the signals of its flags.            *)
(***************************************************************************)
EXTENDS CurlParser, Signals, Lists

CONSTANT Cwd   \* the working directory, if the client sent it: a set of parts

(* resolve_path *)
Resolve(path) ==
  IF path.absolute \/ Cwd = {} THEN path
  ELSE [absolute |-> TRUE, parts |-> Collapse((CHOOSE parts \in Cwd : TRUE) \o path.parts)]

Opt(id) == got.opt[id]
Seen(id) == id \in got.seen

(* Fault: -G is looked at before -I. *)
InferMethodGetFirst ==
  CASE got.method # {}                   -> CHOOSE method \in got.method : TRUE
    [] got.method = {} /\ Seen("Get")    -> "GET"
    [] got.method = {} /\ ~Seen("Get") /\ Seen("Head") -> "HEAD"
    [] OTHER -> IF got.data # <<>> THEN "POST"
                ELSE IF Opt("UploadFile") # {} THEN "PUT" ELSE "GET"

(* infer_method *)
InferMethod ==
  CASE got.method # {}                     -> CHOOSE method \in got.method : TRUE
    [] got.method = {} /\ Seen("Head")     -> "HEAD"
    [] got.method = {} /\ ~Seen("Head") /\ Seen("Get") -> "GET"
    [] OTHER -> IF got.data # <<>> THEN "POST"
                ELSE IF Opt("UploadFile") # {} THEN "PUT" ELSE "GET"

ChunksOf(kind) == {i \in DOMAIN got.data : got.data[i].kind = kind}

(* build_body: a file stands alone, and nothing comes from stdin. *)
BodyError ==
  IF ChunksOf("stdin") # {} THEN "StreamingUnsupported"
  ELSE IF ChunksOf("file") # {} /\ Len(got.data) > 1 THEN "Other" ELSE NoError

BodyKind ==
  IF got.data = <<>> THEN "none" ELSE IF ChunksOf("file") # {} THEN "file" ELSE "inline"

TlsPolicy(url) ==
  IF Seen("Insecure") THEN "insecure" ELSE IF url.scheme = "http" THEN "plaintext" ELSE "strict"

(* derive_auth: -u, then .netrc, then the first header that carries any. *)
DeriveAuth ==
  LET bearing == SelectSeq(got.headers, LAMBDA h : h.name \in AuthHeaders) IN
  IF Opt("User") # {} THEN "basic"
  ELSE IF Seen("Netrc") THEN "netrc"
  ELSE IF bearing = <<>> THEN "none"
  ELSE IF bearing[1].name = "authorization" /\ bearing[1].scheme \in {"bearer", "basic"}
  THEN bearing[1].scheme ELSE "header"

File(kind, path, overwrite) ==
  LET full == Resolve(path)
  IN  [kind |-> kind, absolute |-> full.absolute, path |-> full.parts, overwrite |-> overwrite]

Reads(texts) == [i \in DOMAIN texts |-> File("read", PathOf[texts[i]], FALSE)]

(* The files of these options that are set, in this order. *)
Named(ids) ==
  LET set == Kept(ids, {id \in SingleIds : Opt(id) # {}})
  IN  [i \in DOMAIN set |-> CHOOSE text \in Opt(set[i]) : TRUE]

Writes(ids) ==
  LET texts == Named(ids) IN [i \in DOMAIN texts |-> File("write", PathOf[texts[i]], TRUE)]

LastSegment(path) ==
  IF path = <<>> \/ path[Len(path)] = "" THEN "download" ELSE path[Len(path)]

(* build_file_write: -o, or the last segment of the URL, inside            *)
(* --output-dir unless it is absolute.                                     *)
FileWrites(url) ==
  LET dir  == {PathOf[text] : text \in Opt("OutputDir")}
      raw  == IF Opt("Output") # {} THEN {PathOf[text] : text \in Opt("Output")}
              ELSE IF Seen("RemoteName") \/ Seen("RemoteHeaderName")
              THEN {[absolute |-> FALSE, parts |-> <<LastSegment(url.path)>>]} ELSE {}
      Under(d, path) == [absolute |-> d.absolute, parts |-> d.parts \o path.parts]
      path == CHOOSE p \in {p \in raw : p.absolute \/ dir = {}}
                           \cup {Under(d, p) : d \in dir, p \in {r \in raw : ~r.absolute}} : TRUE
  IN  IF raw = {} THEN <<>> ELSE <<File("write", path, ~Seen("NoClobber"))>>

FilesOf(url) ==
  LET bodies  == Kept(got.data, {got.data[i] : i \in ChunksOf("file")})
      cookies == Kept(got.cookies, {v \in Texts : v.at})
  IN  Reads([i \in DOMAIN bodies |-> bodies[i].value])
      \o Reads(Named(<<"UploadFile", "Cert", "Key", "Pubkey">>))
      \o Reads([i \in DOMAIN cookies |-> Rest(cookies[i])])
      \o Writes(<<"CookieJar", "DumpHeader", "Trace", "TraceAscii", "EtagSave">>)
      \o Reads(Named(<<"EtagCompare", "WriteOut">>))
      \o FileWrites(url)

(* build_signals *)
FlagSignals ==
  LET raised ==
        [InsecureFlag      |-> Seen("Insecure"),
         CacertOverride    |-> Opt("CaCert") # {},
         ResolveOverride   |-> got.resolve # <<>>,
         UnixSocket        |-> Opt("UnixSocket") # {},
         ClientCertificate |-> Opt("Cert") # {} \/ Opt("Key") # {},
         RemoteHeaderName  |-> Seen("RemoteHeaderName"),
         CreateDirs        |-> Seen("CreateDirs"),
         FollowRedirects   |-> Seen("Location")]
  IN  {kind \in DOMAIN raised : raised[kind]}

(* build_extras: what the card's detail shows and no rule looks at. *)
Extras ==
  LET shown ==
        [unknown_flags |-> got.unknown # <<>>,
         user_agent_flag |-> Opt("UserAgent") # {},
         cert_type |-> Opt("CertType") # {},
         key_type |-> Opt("KeyType") # {},
         engine |-> Opt("Engine") # {},
         cert_password_supplied |-> got.password,
         cookies_inline |-> \E i \in DOMAIN got.cookies : ~got.cookies[i].at]
  IN  {key \in DOMAIN shown : shown[key]}

(* The first reason for which finalise refuses. *)
FinaliseError ==
  IF got.extra # <<>> THEN "Other"
  ELSE IF got.url = {} THEN "MissingArgument"
  ELSE IF \E i \in DOMAIN got.headers : got.headers[i].name = "transfer-encoding" /\ got.headers[i].chunked
  THEN "StreamingUnsupported"
  ELSE BodyError

(* finalise, and the generic signals parse_request adds. *)
CommandFor(url) ==
  LET request ==
        [method |-> InferMethod, url |-> [url EXCEPT !.fragment = FALSE],
         headers |-> {got.headers[i].name : i \in DOMAIN got.headers},
         body |-> BodyKind, auth |-> DeriveAuth, tls |-> TlsPolicy(url),
         follow_redirects |-> Seen("Location"), proxy |-> {UrlOf[v] : v \in Opt("Proxy")}]
      generic == Analyze([cwd |-> Cwd, http |-> request, files |-> FilesOf(url)])
  IN  [command |-> "curl", cwd |-> Cwd, http |-> request, files |-> FilesOf(url),
       extras |-> Extras, signals |-> FlagSignals \cup generic]

Finalise ==
  /\ stage = "absorb" /\ at > Len(tokens)
  /\ IF FinaliseError # NoError THEN Refuse(FinaliseError)
     ELSE \E url \in got.url :
            /\ stage' = "done"
            /\ outcome' = [error |-> NoError, parsed |-> {CommandFor(url)}]
            /\ UNCHANGED <<words, at, afterDashes, tokens, got>>

ParserStep == TokeniseWord \/ Tokenised \/ AbsorbToken \/ Finalise
=============================================================================
