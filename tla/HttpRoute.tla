------------------------------ MODULE HttpRoute ------------------------------
(***************************************************************************)
(* http_conn::do_request(): from a request to the code of its answer.  A   *)
(* URL is told by the character after its last '/', which is all the       *)
(* routing looks at, or is "/" or "/diagnose".  What MySQL, Redis, the     *)
(* file system and the models say is an outcome; Accounts and Sessions     *)
(* have the first two in full.                                             *)
(***************************************************************************)

\* What a request asks for: a login, a registration, a logout, another page.
Urls == {"/", "/diagnose", "2", "3", "4", "page"}

\* session: the cookie names a session; known: name and password match; file: what
\* stat() says of the page; json, csv, model: the body of a diagnosis and what is
\* loaded for it ("narrow": a row without three numbers; "short": fewer than 64 rows).
Outcomes == [session : BOOLEAN, known : BOOLEAN,
             file : {"absent", "forbidden", "directory", "file"},
             json : BOOLEAN, csv : {"none", "narrow", "short", "samples"}, model : BOOLEAN]

\* Bad input and a missing model are answered with a message, samples with a CSV.
diagnose(o) == IF o.json /\ o.csv \in {"none", "samples"} /\ o.model
               THEN "DIAGNOSE_CSV_REQUEST" ELSE "DIAGNOSE_REQUEST"

\* A visit of "/" gets diagnose.html, which is not tested for being a directory.
stat_file(cgi, url, o) ==
    CASE o.file = "absent" -> "NO_RESOURCE"
      [] o.file = "forbidden" -> "FORBIDDEN_REQUEST"
      [] o.file = "directory" /\ (cgi \/ url # "/") -> "BAD_REQUEST"
      [] OTHER -> "FILE_REQUEST"

\* A registration, and a login that fails, go on to a page that says so.
do_request(cgi, url, o) ==
    CASE ~cgi /\ url \in {"/", "/diagnose"} /\ ~o.session -> "REDIRECT_REQUEST"
      [] cgi /\ url = "/diagnose" -> diagnose(o)
      [] cgi /\ url = "2" /\ o.known -> "REDIRECT_REQUEST"
      [] url = "4" -> "REDIRECT_REQUEST"
      [] OTHER -> stat_file(cgi, url, o)

\* The codes a request may be answered with.
Replies(cgi, url) == {do_request(cgi, url, o) : o \in Outcomes}
=============================================================================
