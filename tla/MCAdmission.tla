----------------------------- MODULE MCAdmission -----------------------------
(***************************************************************************)
(* Instances of Admission.  A behaviour is about one of four things: how a *)
(* line is read (every flag alone in every spelling and place; pairs of    *)
(* the flags that touch the same part of the command; the three that name  *)
(* the output; and lines that are no plain list of flags), which program   *)
(* argv[0] is, whether a path fits a glob (patterns and paths of up to     *)
(* four segments), or adding known hosts while the request is on its way   *)
(* (two threads that add).                                                 *)
(***************************************************************************)
EXTENDS Admission, TLC

CONSTANTS x1, x2

Seqs == INSTANCE SequencesExt

MCAdders == {x1, x2}

T(name) == [at |-> FALSE, text |-> <<name>>]
A(name) == [at |-> TRUE, text |-> <<name>>]
Text(names) == [at |-> FALSE, text |-> names]

SegmentsUpTo(n, alphabet) == UNION {[1 .. k -> alphabet] : k \in 0 .. n}

Paths == SegmentsUpTo(4, {"a", "b"}) \cup {Append(path1, "") : path1 \in SegmentsUpTo(1, {"a", "b"})}
Hosts == {<<"api", "h", "io">>, <<"www", "h", "io">>, <<"h", "io">>, <<"10.0.0.1">>,
          <<"127.0.0.1">>, Localhost, <<"127", "h", "io">>, <<"odd_", "h", "io">>, <<"pypi", "org">>}

MCIpHosts == {<<"10.0.0.1">>, <<"127.0.0.1">>}
MCLoopbackIps == {<<"127.0.0.1">>}
MCIdnHosts == {}
MCOddHosts == {<<"odd_", "h", "io">>}
MCBuiltin == {[wild |-> FALSE, labels |-> <<"pypi", "org">>]}

Url(segments) == Text(<<"url">> \o segments)
UrlAt(host)   == Text(<<"host">> \o host)
PlainUrl      == T("http")
AnyUrl        == Url(<<"a", "b">>)

MCUrlOf ==
  [t \in {Url(segments) : segments \in Paths} \cup {UrlAt(h) : h \in Hosts} \cup {PlainUrl} |->
     LET kind == t.text[1] IN
     [scheme   |-> IF kind = "http" THEN "http" ELSE "https",
      host     |-> IF kind = "host" THEN Tail(t.text) ELSE <<"h", "io">>,
      port     |-> IF kind = "http" THEN {8000} ELSE {},
      path     |-> IF kind = "url" THEN Tail(t.text) ELSE <<"a", "">>,
      query    |-> kind = "http",
      fragment |-> kind = "http"]]

MCHeaderOf ==
  [t \in {T("auth"), T("cookie"), T("x-plain"), T("chunked")} |->
     [name |-> CASE t = T("auth") -> "authorization" [] t = T("chunked") -> "transfer-encoding"
                 [] OTHER -> t.text[1],
      chunked |-> t = T("chunked"),
      scheme |-> IF t = T("auth") THEN "bearer" ELSE "none"]]

MCMethodOf == [t \in {T("post"), T("POST"), T("put")} |-> IF t = T("put") THEN "PUT" ELSE "POST"]

Files == {T("f"), T("g"), T("-L"), Text(<<"..", "f">>), Text(<<"/", "tmp", "f">>),
          Text(<<"d", "e">>), Text(<<"/", "tmp">>)}
MCCertOf ==
  [t \in {T("f"), T("f:pw")} |-> [file |-> T("f"), password |-> t = T("f:pw")]]
MCPathOf ==
  [t \in Files |-> IF t.text[1] = "/" THEN [absolute |-> TRUE, parts |-> Tail(t.text)]
                   ELSE [absolute |-> FALSE, parts |-> t.text]]
MCCwd == {<<"w", "x">>}

-----------------------------------------------------------------------------
(* The flags, with the values that matter to them. *)
One(id, v) == Tok(id, {v})
Flags(ids) == {Tok(id, {}) : id \in ids}
Page == One("positional", AnyUrl)

(* Those that touch the same parts of a command. *)
Contended ==
  Flags({"Insecure", "Location", "Get", "Head", "Netrc"})
  \cup {One("Request", T("post")), One("Request", T("POST")), One("Request", T("put")),
        One("Header", T("auth")), One("Header", T("cookie")),
        One("Data", T("k=v")), One("Data", A("f")), One("DataRaw", A("f")), One("DataBinary", A("g")),
        One("User", T("me")), One("UploadFile", T("f")), One("Cookie", A("g")),
        One("Cert", T("f:pw")), One("Cert", T("f")), One("Key", T("g")),
        One("DumpHeader", T("f")), One("DumpHeader", Dash),
        One("WriteOut", A("f")), One("WriteOut", T("k=v"))}

(* Those that say where the response goes. *)
Outputs ==
  Flags({"RemoteName", "RemoteHeaderName", "NoClobber"})
  \cup {One("Output", v) : v \in {T("f"), Text(<<"..", "f">>), Text(<<"/", "tmp", "f">>)}}
  \cup {One("OutputDir", v) : v \in {Text(<<"d", "e">>), Text(<<"/", "tmp">>)}}

Others ==
  Flags({"CreateDirs", "Silent", "Verbose", "Fail", "ShowError", "ProgressBar", "Next"})
  \cup {One(id, T("f")) : id \in {"DataAscii", "DataUrlencode", "Resolve", "Form", "FormString",
          "UserAgent", "CaCert", "UnixSocket", "Config", "CertType", "KeyType", "Pass", "Pubkey",
          "Engine", "CookieJar", "Trace", "TraceAscii", "EtagSave", "EtagCompare", "Cookie"}}
  \cup {One("Header", T("x-plain")), One("Header", T("chunked")), One("Header", T("f")),
        One("Data", AtDash), One("DataRaw", AtDash), One("Cookie", AtDash), One("WriteOut", AtDash),
        One("UploadFile", Dash), One("Proxy", PlainUrl), One("Proxy", T("f")),
        One("Trace", Dash), One("Trace", T("%")), One("positional", T("f")), One("positional", PlainUrl),
        Tok("unknown", {}), One("unknown", T("f"))}

Word(form, name, letters, value, raw) ==
  [form |-> form, name |-> name, letters |-> letters, value |-> value, raw |-> raw]
Plain(v) == Word("plain", "", <<>>, {}, v)
Long(name, value) == Word("long", name, <<>>, value, Text(<<"--", name>>))
Short(letters, value) == Word("short", "", letters, value, IF letters = <<"L">> THEN T("-L") ELSE Text(<<"-">> \o letters))
DashDash == Word("dashdash", "", <<>>, {}, T("--"))

SpecOf(id) == CHOOSE spec \in FlagSpecs : spec.id = id

Spellings == {"long", "joined", "short", "attached"}

Spelled(item, how) ==
  IF item.id = "positional" THEN <<Plain(CHOOSE v \in item.value : TRUE)>>
  ELSE IF item.id = "unknown"
  THEN <<IF item.value = {} /\ how = "short" THEN Short(<<"q">>, {}) ELSE Long("bogus", item.value)>>
  ELSE LET spec == SpecOf(item.id)
           apart == [i \in 1 .. Cardinality(item.value) |-> Plain(CHOOSE v \in item.value : TRUE)]
       IN  IF how \in {"short", "attached"} /\ spec.short # ""
           THEN IF how = "short" THEN <<Short(<<spec.short>>, {})>> \o apart
                ELSE <<Short(<<spec.short>>, item.value)>>
           ELSE IF how = "joined" THEN <<Long(spec.long, item.value)>>
                ELSE <<Long(spec.long, {})>> \o apart

Line(items, how) == [argv |-> Seqs!FlattenSeq([i \in DOMAIN items |-> Spelled(items[i], how)]), meant |-> items]

Alone ==
  {Line(items, how) :
     items \in {<<item, Page>> : item \in Contended \cup Outputs \cup Others}
               \cup {<<Page, item>> : item \in Contended \cup Outputs \cup Others},
     how \in Spellings}
Pairs == {Line(<<x, Page, y>>, how) : x, y \in Contended, how \in {"joined", "short"}}
Triples == {Line(<<x, y, z, Page>>, "attached") : x, y, z \in Outputs}

Bools == {spec \in BoolSpecs : spec.short # "" /\ spec.id # "Next"}
Clusters ==
  {[argv |-> <<Short(<<x.short, y.short>>, {T(y.short)}), Plain(AnyUrl)>>,
    meant |-> <<Tok(x.id, {}), Tok(y.id, {}), Page>>] : x, y \in Bools}

(* Lines that are no plain list of flags. *)
Irregular ==
  LET Nonsense(argv) == [argv |-> argv, meant |-> <<Tok("nonsense", {})>>]
      k == Tok("Insecure", {})  unknown == Tok("unknown", {})
  IN  {Nonsense(<<Plain(AnyUrl), Short(<<"o">>, {})>>),
       Nonsense(<<Long("data", {})>>),
       Nonsense(<<Short(<<"k", "X">>, {T("X")}), Plain(T("post")), Plain(AnyUrl)>>),
       Nonsense(<<Long("insecure", {T("f")}), Plain(AnyUrl)>>),
       Nonsense(<<DashDash, Short(<<"k">>, {}), Plain(AnyUrl)>>),
       [argv |-> <<>>, meant |-> <<>>],
       [argv |-> <<Short(<<"q", "k">>, {T("k")}), Plain(AnyUrl)>>, meant |-> <<unknown, unknown, Page>>],
       [argv |-> <<Short(<<"k", "q">>, {T("q")}), Plain(AnyUrl)>>, meant |-> <<k, unknown, Page>>],
       [argv |-> <<Short(<<"k">>, {}), DashDash, Plain(AnyUrl)>>, meant |-> <<k, Page>>],
       [argv |-> <<Short(<<"o">>, {}), Short(<<"L">>, {}), Plain(AnyUrl)>>,
        meant |-> <<One("Output", T("-L")), Page>>]}

-----------------------------------------------------------------------------
Curl(dir) == [dir |-> dir, name |-> "curl"]
AFile(real, inode) == [real |-> real, inode |-> inode, executable |-> TRUE]

(* curl in /usr/bin, bash beside it, and things called curl elsewhere. *)
FileSystem ==
  Curl("/usr/bin")                   :> AFile({Curl("/usr/bin")}, 1)
  @@ [dir |-> "/bin", name |-> "bash"] :> AFile({[dir |-> "/bin", name |-> "bash"]}, 2)
  @@ Curl("/copy")                   :> AFile({Curl("/copy")}, 3)
  @@ Curl("/hardlink")               :> AFile({Curl("/hardlink")}, 1)
  @@ Curl("/to-bash")                :> AFile({[dir |-> "/bin", name |-> "bash"]}, 2)
  @@ [dir |-> "/to-curl", name |-> "get"] :> AFile({Curl("/usr/bin")}, 1)
  @@ Curl("/loop")                   :> AFile({}, 4)

World(argv0, dirs, trusted) == [argv0 |-> argv0, path |-> dirs, trusted |-> trusted, files |-> FileSystem]
Usual == World(Curl(""), <<"/nowhere", "/usr/bin">>, {})

Worlds ==
  {World(file, <<"/usr/bin">>, trusted) :
     file \in DOMAIN FileSystem \cup {Curl(""), Curl("/nowhere"), [dir |-> "", name |-> ""]},
     trusted \in {{}, {"/copy"}}}
  \cup {World(Curl(""), <<"/copy", "/usr/bin">>, {}), World(Curl(""), <<>>, {})}

-----------------------------------------------------------------------------
AnyRequest ==
  [command |-> {}, sid |-> {}, expires_at |-> {},
   when |->
     [http |-> {[method |-> {}, url |-> {[scheme |-> {}, host |-> {}, port |-> {}, path |-> {}]},
                 headers_allow |-> {}, no_body |-> {}, query |-> {}, no_redirects |-> {}]},
      file_write |-> {}, file_read |-> {}]]

Globs == SegmentsUpTo(4, {"a", "*", "**"})

Setup(world, line, rules, patterns) ==
  [world |-> world, argv |-> line.argv, meant |-> line.meant, rules |-> rules, patterns |-> patterns]
Visit(url) == Line(<<One("positional", url)>>, "long")

Lines == {Setup(Usual, line, {}, {}) : line \in Alone \cup Pairs \cup Triples \cup Clusters \cup Irregular}
Programs == {Setup(world, Visit(AnyUrl), {}, {}) : world \in Worlds}
PathSetups ==
  {Setup(Usual, Visit(Url(segments)), {[rule |-> AnyRequest, glob |-> glob]}, {}) :
     segments \in Paths, glob \in Globs}
HostSetups ==
  {Setup(Usual, Visit(UrlAt(h)), {}, {[wild |-> FALSE, labels |-> h], [wild |-> TRUE, labels |-> <<"h", "io">>]}) :
     h \in Hosts}

MCSetups == Lines \cup Programs \cup PathSetups \cup HostSetups
=============================================================================
