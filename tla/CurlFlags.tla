----------------------------- MODULE CurlFlags -----------------------------
(***************************************************************************)
(* curl's flags as the parser knows them                                   *)
(* (vetter-core/src/parsers/curl/flags.rs, FLAG_SPECS).                    *)
(***************************************************************************)

(* What a flag has that is without a short form. *)
NoShort == ""

Flag(id, short, long) == [id |-> id, short |-> short, long |-> long]

(* No value; presence only. *)
BoolSpecs ==
  { Flag("Insecure", "k", "insecure"),          Flag("NoClobber", NoShort, "no-clobber"),
    Flag("CreateDirs", NoShort, "create-dirs"), Flag("RemoteName", "O", "remote-name"),
    Flag("RemoteHeaderName", "J", "remote-header-name"),
    Flag("Location", "L", "location"),          Flag("Netrc", NoShort, "netrc"),
    Flag("Get", "G", "get"),                    Flag("Head", "I", "head"),
    Flag("Silent", "s", "silent"),              Flag("Verbose", "v", "verbose"),
    Flag("Fail", "f", "fail"),                  Flag("ShowError", "S", "show-error"),
    Flag("ProgressBar", "#", "progress-bar"),   Flag("Next", ":", "next") }

(* A value each time, all kept, or refused outright. *)
MultiSpecs ==
  { Flag("Header", "H", "header"),              Flag("Data", "d", "data"),
    Flag("DataRaw", NoShort, "data-raw"),       Flag("DataBinary", NoShort, "data-binary"),
    Flag("DataAscii", NoShort, "data-ascii"),   Flag("DataUrlencode", NoShort, "data-urlencode"),
    Flag("Resolve", NoShort, "resolve"),        Flag("Cookie", "b", "cookie"),
    Flag("Form", "F", "form"),                  Flag("FormString", NoShort, "form-string") }

(* One value; a later one replaces an earlier one. *)
RequestSpecs ==
  { Flag("Request", "X", "request"),            Flag("User", "u", "user"),
    Flag("Output", "o", "output"),              Flag("OutputDir", NoShort, "output-dir"),
    Flag("UploadFile", "T", "upload-file"),     Flag("Proxy", "x", "proxy"),
    Flag("UserAgent", "A", "user-agent"),       Flag("CaCert", NoShort, "cacert"),
    Flag("UnixSocket", NoShort, "unix-socket"), Flag("Config", "K", "config") }

FileSpecs ==
  { Flag("Cert", "E", "cert"),                  Flag("Key", NoShort, "key"),
    Flag("CertType", NoShort, "cert-type"),     Flag("KeyType", NoShort, "key-type"),
    Flag("Pass", NoShort, "pass"),              Flag("Pubkey", NoShort, "pubkey"),
    Flag("Engine", NoShort, "engine"),          Flag("CookieJar", "c", "cookie-jar"),
    Flag("DumpHeader", "D", "dump-header"),     Flag("Trace", NoShort, "trace"),
    Flag("TraceAscii", NoShort, "trace-ascii"), Flag("EtagSave", NoShort, "etag-save"),
    Flag("EtagCompare", NoShort, "etag-compare"),Flag("WriteOut", "w", "write-out") }

ValueSpecs == MultiSpecs \cup RequestSpecs \cup FileSpecs

FlagSpecs == BoolSpecs \cup ValueSpecs

Ids(specs) == {spec.id : spec \in specs}

(* The flag of that name, if there is one. *)
LookupLong(name) == {spec \in FlagSpecs : spec.long = name}
LookupShort(c)   == {spec \in FlagSpecs : spec.short = c}

TakesValue(spec) == spec \in ValueSpecs

DataIds == {"Data", "DataRaw", "DataBinary", "DataAscii", "DataUrlencode"}
=============================================================================
