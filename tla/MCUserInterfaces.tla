------------------------- MODULE MCUserInterfaces -------------------------
(***************************************************************************)
(* The desktop application and the pages of the web admin panel.  They     *)
(* share nothing: a behaviour exercises one of them.                       *)
(***************************************************************************)
EXTENDS DesktopApp, AdminPages

VARIABLE interface

\* Words, one of which is encoded in a path and in a query, and an authority with a
\* port of its own, one in capitals and one that is none.
WebTexts ==
    {"", "agent", "http", "https", "ftp", HuggingFaceHost, "files", "FILES", "files:443", "<", "blob", "o",
     "r", "v1", "q4", "m", "refs", "pr", "model", "models", "my model", "my%20model", "..", ".", "?x"}
EncodedText == [t \in WebTexts |-> IF t = "my model" THEN "my%20model" ELSE t]
WebAuthority ==
    [a \in WebTexts \X WebTexts |->
        LET name == IF a[1] = "agent" \/ a[2] \notin {"FILES", "files:443"} THEN a[2] ELSE "files"
            written == IF a = <<"http", "files:443">> THEN a[2] ELSE name
        IN  Parsed(a[2] # "<" /\ (a[2] = "" => a[1] = "agent"), a[1], name, written)]

\* Models that can be represented, and pairs with each of those that cannot: a revision
\* of two segments, a URL of Hugging Face, a relative path, a name that is encoded, a
\* path with dots and a query, a URL that is normalised.
Balanced ==
    {<<HuggingFace(<<"o", "r">>, <<"v1">>, <<"q4", "m">>, ""), LocalToAgent(<<"models", "m">>, FALSE, "")>>,
     <<HuggingFace(<<"o", "r">>, <<"refs", "pr">>, <<"m">>, ""), UrlModel(UriOf("https", "files", <<"model">>, "?x"))>>,
     <<UrlModel(UriOf("https", HuggingFaceHost, <<"o", "r", "blob", "v1", "m">>, "")),
       LocalToAgent(<<"models", "m">>, TRUE, "")>>,
     <<LocalToAgent(<<"models", "..", "my model", ".">>, FALSE, "?x"), UrlModel(UriOf("https", "FILES", <<>>, ""))>>}

\* Nothing, a scheme that is not supported, an authority that is none, and the same
\* repository written otherwise.
Inputs ==
    {NoUri, UriOf("ftp", "files", <<"model">>, ""), UriOf("https", "<", <<"m">>, ""),
     UriOf("https", HuggingFaceHost, <<"", "o", ".", "r", "q4", "..", "blob", "v1", "my model">>, "?x")}

InterfacesInit ==
    /\ interface \in {"desktop", "web"}
    /\ Init /\ AdminPagesInit
    /\ interface = "desktop" => desired.model.kind = "Url"

InterfacesNext ==
    /\ UNCHANGED interface
    /\ \/ interface = "desktop" /\ Next /\ UNCHANGED adminVars
       \/ interface = "web" /\ AdminNext /\ UNCHANGED vars

InterfacesSpec ==
    /\ InterfacesInit
    /\ [][InterfacesNext]_<<interface, vars, adminVars>>
    /\ DesktopFairness
    /\ AdminFairness
-----------------------------------------------------------------------------
\* What is on the screen is so.  In the desktop application, a runner that lives
\* can be stopped from the screen, which is about that runner, and an error is
\* about what its field holds; on the pages, what is submitted is what was chosen,
\* the editor has what was saved, and a dialog is about its own agent.
ScreensAreTrue ==
    /\ TypeOK /\ RunningIsInReach /\ ShownIsStopped /\ ErrorsAreCurrent
    /\ AdminPagesTypeOK /\ PutIsWanted /\ EditorShowsSaved /\ DialogShowsOwn

\* No screen waits for ever, no thread outlives the window, and the dashboard comes
\* to show the agents as they are.
ScreensMoveOn == StartEnds /\ StopEnds /\ QuitEndsAll /\ DashboardIsCurrent /\ LoadingEnds
=============================================================================
