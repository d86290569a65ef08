---------------------------- MODULE MCComponents -----------------------------
(****************************************************************************)
(* Each of the components on a small instance.                              *)
(****************************************************************************)
EXTENDS Components

Limits == [delete |-> 1]

Plain ==
  [name |-> 1, item |-> TRUE, scheme |-> "https", userinfo |-> FALSE, at |-> "dns",
   host |-> <<"api", "com">>, stars |-> 0, port |-> 0, auth |-> "bearer", has |-> <<>>,
   insecure |-> FALSE, ca |-> "none", timeout |-> None, mode |-> "host_inject"]
SessionKeys(state) == [login_path |-> "good", token_field |-> state]

\* Sound entries and refused ones, of one name and of several, that clash, that
\* overlap and that cannot be served.
Written ==
  {Plain,
   [Plain EXCEPT !.at = "loopback"],
   [Plain EXCEPT !.host = <<"nas">>, !.scheme = "http", !.insecure = TRUE, !.ca = "bad"],
   [Plain EXCEPT !.name = 2, !.scheme = "http", !.port = 443, !.mode = "passthrough"],
   [Plain EXCEPT !.name = 2, !.host = <<"com">>, !.stars = 1, !.auth = "session",
                 !.has = SessionKeys("good"), !.mode = "placeholder"],
   [Plain EXCEPT !.name = 2, !.host = <<"com">>, !.stars = 1, !.auth = "session",
                 !.has = SessionKeys("good")],
   [Plain EXCEPT !.name = 2, !.auth = "session", !.has = SessionKeys("empty"), !.mode = "off"],
   [Plain EXCEPT !.name = 3, !.stars = 1],
   [Plain EXCEPT !.name = 3, !.stars = 2],
   [Plain EXCEPT !.name = 3, !.timeout = 0]}

Requests == [host : {<<"nas">>, <<"api", "com">>, <<"x", "api", "com">>}, port : {80, 443}]


==============================================================================
