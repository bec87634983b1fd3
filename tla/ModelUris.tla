------------------------------ MODULE ModelUris ------------------------------
(***************************************************************************)
(* How the model form of the web admin panel writes a desired model as a   *)
(* URI and reads it back.  The text of a URI is its scheme, its authority, *)
(* the segments of its path and what begins with its first ? or #, which   *)
(* may be part of the name of a file.  Reading goes through the URL parser *)
(* of the browser, which encodes segments, resolves dots and ends the path *)
(* at the query.  A revision of a Hugging Face repository may have more    *)
(* than one segment, a local path may be relative.                         *)
(***************************************************************************)
EXTENDS Naturals, Sequences

CONSTANTS
    Texts,         \* the words of URIs; none holds a slash, a backslash, a ? or a #
    PathEncoded,   \* external: how the URL parser writes a segment
    QueryEncoded,  \* external: how it writes a query and a fragment
    Authority      \* external: what it makes of a scheme and an authority

NoText == ""
HuggingFaceHost == "huggingface.co"
Parsed(valid, protocol, hostname, host) ==
    [valid |-> valid, protocol |-> protocol, hostname |-> hostname, host |-> host]

AuthorityRecord == [valid : BOOLEAN, protocol : Texts, hostname : Texts, host : Texts]

\* The parser changes nothing in what modelSchemaToUrl writes itself, nor in what it
\* has written.
ASSUME ModelUrisAssumption ==
    /\ {NoText, "agent", "https", "blob", HuggingFaceHost} \subseteq Texts
    /\ PathEncoded \in [Texts -> Texts] /\ PathEncoded["blob"] = "blob" /\ PathEncoded[NoText] = NoText
    /\ QueryEncoded \in [Texts -> Texts]
    /\ \A text \in Texts : /\ PathEncoded[PathEncoded[text]] = PathEncoded[text]
                           /\ QueryEncoded[QueryEncoded[text]] = QueryEncoded[text]
    /\ Authority \in [Texts \X Texts -> AuthorityRecord]
    /\ \A scheme, host \in Texts :
          LET authority == Authority[<<scheme, host>>]
          IN  authority.valid => Authority[<<authority.protocol, authority.host>>] = authority
    /\ Authority[<<"agent", NoText>>] = Parsed(TRUE, "agent", NoText, NoText)
    /\ Authority[<<"https", HuggingFaceHost>>] = Parsed(TRUE, "https", HuggingFaceHost, HuggingFaceHost)

Segments == Seq(Texts)
Uri == [scheme : Texts, host : Texts, path : Segments, query : Texts]
UriOf(scheme, host, path, query) == [scheme |-> scheme, host |-> host, path |-> path, query |-> query]
NoUri == UriOf(NoText, NoText, <<>>, NoText)

\* AgentDesiredModel: repo and revision are a HuggingFaceModelReference's, path
\* is its filename or the local path, relative says which, and query is what the name
\* has from its first ? or # on; uri is a Url's.
DesiredModelOf(kind, repo, revision, path, relative, query, uri) ==
    [kind |-> kind, repo |-> repo, revision |-> revision, path |-> path, relative |-> relative,
     query |-> query, uri |-> uri]
NoModel == DesiredModelOf("None", <<>>, <<>>, <<>>, FALSE, NoText, NoUri)
HuggingFace(repo, revision, path, query) ==
    DesiredModelOf("HuggingFace", repo, revision, path, FALSE, query, NoUri)
LocalToAgent(path, relative, query) ==
    DesiredModelOf("LocalToAgent", <<>>, <<>>, path, relative, query, NoUri)
UrlModel(uri) == DesiredModelOf("Url", <<>>, <<>>, <<>>, FALSE, NoText, uri)

ModelRecord ==
    [kind : {"None", "HuggingFace", "LocalToAgent", "Url"}, repo : Segments, revision : Segments,
     path : Segments, relative : BOOLEAN, query : Texts, uri : Uri]
WellFormed(m) ==
    \/ m = NoModel
    \/ m = HuggingFace(m.repo, m.revision, m.path, m.query)
    \/ m = LocalToAgent(m.path, m.relative, m.query) /\ (m.relative => m.path # <<>>)
    \/ m = UrlModel(m.uri)
DesiredModel == {m \in ModelRecord : WellFormed(m)}

\* The first segment of a relative path is read as the host.
modelSchemaToUrl(model) ==
    CASE model.kind = "None" -> NoUri
      [] model.kind = "HuggingFace" ->
            UriOf("https", HuggingFaceHost, model.repo \o <<"blob">> \o model.revision \o model.path,
                  model.query)
      [] model.kind = "LocalToAgent" ->
            IF model.relative
            THEN UriOf("agent", Head(model.path), Tail(model.path), model.query)
            ELSE UriOf("agent", NoText, model.path, model.query)
      [] model.kind = "Url" -> model.uri

(***************************************************************************)
(* new URL: what the browser's parser does (WHATWG).                       *)
(***************************************************************************)
SingleDot == {".", "%2e"}
DoubleDot == {"..", ".%2e", "%2e.", "%2e%2e"}
SpecialSchemes == {"http", "https", "ftp"}

\* A segment is passed over, takes the one before it back, or is appended.
Walk(walked, segment, over, back) ==
    IF segment \in over THEN walked
    ELSE IF segment \in back
    THEN IF walked = <<>> THEN <<>> ELSE SubSeq(walked, 1, Len(walked) - 1)
    ELSE Append(walked, segment)

WalkPath(path, over, back) ==
    LET walked[i \in 0 .. Len(path)] ==
            IF i = 0 THEN <<>> ELSE Walk(walked[i - 1], path[i], over, back)
    IN  walked[Len(path)]

\* A path that ends in dots ends in a slash; a special scheme has no empty path.
Pathname(protocol, path) ==
    LET encoded == [i \in 1 .. Len(path) |-> PathEncoded[path[i]]]
        resolved == WalkPath(encoded, SingleDot, DoubleDot)
    IN  IF path = <<>> THEN IF protocol \in SpecialSchemes THEN <<NoText>> ELSE <<>>
        ELSE IF encoded[Len(path)] \in SingleDot \cup DoubleDot THEN Append(resolved, NoText)
        ELSE resolved

\* The parser throws unless this holds.
IsUrl(uri) == Authority[<<uri.scheme, uri.host>>].valid

ParseUrl(uri) ==
    LET authority == Authority[<<uri.scheme, uri.host>>]
    IN  [protocol |-> authority.protocol, hostname |-> authority.hostname, host |-> authority.host,
         pathname |-> Pathname(authority.protocol, uri.path), search |-> QueryEncoded[uri.query]]

ToString(url) == UriOf(url.protocol, url.host, url.pathname, url.search)

(***************************************************************************)
(* The model of a URL.                                                     *)
(***************************************************************************)
NonEmptySegments(pathname) == WalkPath(pathname, {NoText}, {})

\* extractHuggingFaceUrlParts throws unless this holds.
IsHuggingFacePath(segments) == Len(segments) >= 5 /\ segments[3] \in {"blob", "resolve"}

extractHuggingFaceUrlParts(segments) ==
    HuggingFace(<<segments[1], segments[2]>>, <<segments[4]>>, SubSeq(segments, 5, Len(segments)), NoText)

\* urlToAgentDesiredModel throws unless this holds.
IsModelUrl(url) ==
    IF url.hostname = HuggingFaceHost THEN IsHuggingFacePath(NonEmptySegments(url.pathname))
    ELSE url.protocol \in {"agent", "http", "https"}

urlToAgentDesiredModel(url) ==
    IF url.hostname = HuggingFaceHost
    THEN extractHuggingFaceUrlParts(NonEmptySegments(url.pathname))
    ELSE IF url.protocol = "agent" THEN LocalToAgent(url.pathname, FALSE, NoText)
    ELSE UrlModel(ToString(url))

\* useAgentDesiredModelUrl: no URI is no model.
IsOk(uri) == uri = NoUri \/ (IsUrl(uri) /\ IsModelUrl(ParseUrl(uri)))
agentDesiredModel(uri) == IF uri = NoUri THEN NoModel ELSE urlToAgentDesiredModel(ParseUrl(uri))

\* What the form can read back: the other models it takes for another one, or refuses.
IsPlain(path) ==
    \A i \in 1 .. Len(path) :
        PathEncoded[path[i]] = path[i] /\ path[i] \notin SingleDot \cup DoubleDot
HasNoEmpty(path) == \A i \in 1 .. Len(path) : path[i] # NoText

Representable(model) ==
    CASE model.kind = "HuggingFace" ->
            /\ Len(model.repo) = 2 /\ Len(model.revision) = 1 /\ Len(model.path) >= 1
            /\ \A path \in {model.repo, model.revision, model.path} : IsPlain(path) /\ HasNoEmpty(path)
            /\ model.query = NoText
      [] model.kind = "LocalToAgent" -> ~model.relative /\ IsPlain(model.path) /\ model.query = NoText
      [] model.kind = "Url" ->
            LET uri == model.uri
                authority == Authority[<<uri.scheme, uri.host>>]
            IN  /\ uri.scheme \in {"http", "https"}
                /\ authority.valid /\ authority.hostname # HuggingFaceHost
                /\ authority.protocol = uri.scheme /\ authority.host = uri.host
                /\ uri.path # <<>> /\ IsPlain(uri.path) /\ QueryEncoded[uri.query] = uri.query
      [] OTHER -> TRUE

===============================================================================
