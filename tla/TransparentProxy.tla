--------------------------- MODULE TransparentProxy ---------------------------
(***************************************************************************)
(* The transparent proxy (src/src/proxy/transparent): agents that have it  *)
(* for their HTTPS_PROXY send CONNECT, and for a host that services.toml   *)
(* names the proxy answers in the host's place, puts the credential in and *)
(* sends the request on.                                                   *)
(*                                                                         *)
(* An upstream that speaks HTTP/2 is reached over a connection that the    *)
(* requests share.  A request that fails on it is sent again on a new      *)
(* connection, and the request of an HTTP/1.1 agent once more over         *)
(* HTTP/1.1; upstream may have served it each time.  Each listener has     *)
(* tables of its own, made from the registry when it starts.               *)
(*                                                                         *)
(* One upstream host; a process is an agent's connection, or one more      *)
(* stream of an agent that speaks HTTP/2.                                  *)
(***************************************************************************)
EXTENDS Naturals

CONSTANTS
  Agent,
  Listener,      \* the listeners: "tcp", and "uds" and "mtls" when configured
  MaxEdits,      \* bound: the reloads that find services.toml changed
  MaxFaults,     \* bound: attempts that fail and connections that are closed
  None

Mode == {"host_inject", "placeholder", "passthrough", "unregistered"}
Protocol == {"h2", "http/1.1"}

VARIABLES
  blocks,        \* is the policy for hosts that are not registered "allowlist"?
  speaks,        \* what upstream speaks
  registry,      \* AppState.registry: the mode it gives the host
  table,         \* the mode that each listener's table gives it
  pool,          \* AppState.h2_upstream_pool: its connection, "live" or "dead"
  pc,
  via,           \* the listener an agent has come by
  alpn, mode,    \* what the agent speaks; the mode of the service it was given
  held,          \* the shared connection that its request is sent on
  sent, broken,  \* how often upstream has had its request; the attempts that
                 \* failed meanwhile, its own and those of others
  edits, faults

config == <<blocks, speaks>>
tables == <<config, registry, table, edits>>
agentVars == <<pc, via, alpn, mode, held, sent, broken>>
vars == <<config, registry, table, pool, agentVars, edits, faults>>

Place ==
  {"idle", "connect", "lookup", "tunnel", "tls", "request", "inject", "take", "shared",
   "fresh", "plain", "answer", "answered", "refused", "unresolved", "failed"}
Link == {None, "live", "dead"}

TypeOK ==
  /\ blocks \in BOOLEAN /\ speaks \in Protocol
  /\ registry \in Mode /\ table \in [Listener -> Mode] /\ pool \in Link
  /\ pc \in [Agent -> Place] /\ via \in [Agent -> Listener \union {None}]
  /\ alpn \in [Agent -> Protocol \union {None}]
  /\ mode \in [Agent -> Mode \union {None}] /\ held \in [Agent -> Link]
  /\ sent \in [Agent -> 0..3] /\ broken \in [Agent -> 0..MaxFaults]
  /\ edits \in 0..MaxEdits /\ faults \in 0..MaxFaults
-----------------------------------------------------------------------------
\* The listeners are started one after the other, from the same registry; what
\* else it may say of the host comes with a reload.
Init ==
  /\ blocks \in BOOLEAN /\ speaks \in Protocol
  /\ registry = "host_inject" /\ table = [l \in Listener |-> registry] /\ pool = None
  /\ pc = [a \in Agent |-> "idle"] /\ via = [a \in Agent |-> None]
  /\ alpn = [a \in Agent |-> None]
  /\ mode = [a \in Agent |-> None] /\ held = [a \in Agent |-> None]
  /\ sent = [a \in Agent |-> 0] /\ broken = [a \in Agent |-> 0]
  /\ edits = 0 /\ faults = 0

Set(var, a, v) == [var EXCEPT ![a] = v]
Goto(a, place) == pc' = Set(pc, a, place)

InFlight(a) == pc[a] \in {"take", "shared", "fresh", "plain"}
Fault ==
  /\ faults < MaxFaults /\ faults' = faults + 1
  /\ broken' = [a \in Agent |-> IF InFlight(a) THEN broken[a] + 1 ELSE broken[a]]

\* rebuild_from_state has the cells of the TCP listener only: main drops those
\* that spawn_uds_listener and spawn_mtls_listener return.
Rebuilt == [table EXCEPT !["tcp"] = registry']

\* The two ways to reload (ServiceReload has their steps): the HTTP one leaves the
\* tables alone.
Reload ==
  /\ edits < MaxEdits /\ edits' = edits + 1 /\ registry' \in Mode \ {registry}
  /\ UNCHANGED <<config, pool, agentVars, faults>>

Sighup == Reload /\ table' = Rebuilt
HttpReload == Reload /\ UNCHANGED table
-----------------------------------------------------------------------------
(* A connection comes in *)

Accepted(a, l) ==
  /\ Goto(a, "connect") /\ via' = Set(via, a, l)
  /\ UNCHANGED <<alpn, mode, held, sent, broken>>

AcceptTcp(a) == Accepted(a, "tcp")

\* Only connections of the proxy's own user get this far.
AcceptUds(a) == "uds" \in Listener /\ Accepted(a, "uds")

\* An agent without a certificate of the client CA is dropped.
AcceptMtls(a) == "mtls" \in Listener /\ Accepted(a, "mtls")

Accept(a) ==
  /\ pc[a] = "idle" /\ (AcceptTcp(a) \/ AcceptUds(a) \/ AcceptMtls(a))
  /\ UNCHANGED <<tables, pool, faults>>

\* The CONNECT line, within five seconds and 40 KiB; anything else is refused.
ReadConnect(a) ==
  /\ pc[a] = "connect" /\ (Goto(a, "lookup") \/ Goto(a, "refused"))
  /\ UNCHANGED <<tables, pool, via, alpn, mode, held, sent, broken, faults>>

Found(a) == table[via[a]]
Injects(m) == m \in {"host_inject", "placeholder"}

Lookup(a) ==
  /\ pc[a] = "lookup" /\ mode' = Set(mode, a, Found(a)) /\ via' = Set(via, a, None)
  /\ Goto(a, IF Injects(Found(a)) THEN "tls"
             ELSE IF Found(a) = "unregistered" /\ blocks THEN "refused" ELSE "tunnel")
  /\ UNCHANGED <<tables, pool, alpn, held, sent, broken, faults>>

\* tunnel_with_audit: the bytes are copied both ways, or there is a 502.
Tunnel(a) ==
  /\ pc[a] = "tunnel"
  /\ \/ Goto(a, "answered") /\ UNCHANGED <<broken, faults>>
     \/ Goto(a, "failed") /\ Fault
  /\ UNCHANGED <<tables, pool, via, alpn, mode, held, sent>>

\* leaf_for: from the cache, or signed; without upstream's names when they cannot
\* be had.  An agent that does not trust the CA ends it here.
Tls(a) ==
  /\ pc[a] = "tls"
  /\ \/ Goto(a, "request") /\ \E p \in Protocol : alpn' = Set(alpn, a, p)
     \/ Goto(a, "refused") /\ UNCHANGED alpn
  /\ UNCHANGED <<tables, pool, via, mode, held, sent, broken, faults>>

\* run_http1 reads the one request of its connection, run_h2 those of its streams.
ReadRequest(a) ==
  /\ pc[a] = "request" /\ (Goto(a, "inject") \/ Goto(a, "refused"))
  /\ UNCHANGED <<tables, pool, via, alpn, mode, held, sent, broken, faults>>
-----------------------------------------------------------------------------
(* The credential *)

\* The agent's own is stripped, the service's added, or there is none to be had.
InjectHost(a) == mode[a] = "host_inject" /\ (Goto(a, "take") \/ Goto(a, "unresolved"))

\* A request without placeholders goes on.  One that is not declared is refused,
\* and so is one that is: test_item_password has what tests have seeded only.
Substitute(a) == mode[a] = "placeholder" /\ (Goto(a, "take") \/ Goto(a, "unresolved"))

Inject(a) ==
  /\ pc[a] = "inject" /\ (InjectHost(a) \/ Substitute(a))
  /\ sent' = Set(sent, a, 0) /\ broken' = Set(broken, a, 0)
  /\ UNCHANGED <<tables, pool, via, alpn, mode, held, faults>>
-----------------------------------------------------------------------------
(* Upstream *)

\* try_h2_inner: the shared connection, if there is one.
Take(a) ==
  /\ pc[a] = "take" /\ held' = Set(held, a, pool)
  /\ Goto(a, IF pool = None THEN "fresh" ELSE "shared")
  /\ UNCHANGED <<tables, pool, via, alpn, mode, sent, broken, faults>>

Answered(a) == Goto(a, "answer") /\ sent' = Set(sent, a, sent[a] + 1)

\* The attempt fails: its connection breaks or is not made, the stream is reset, or the
\* answer is larger than the proxy takes. The request is not sent, or it is and what comes
\* back is lost.
Breaks(a) == Fault /\ (UNCHANGED sent \/ sent' = Set(sent, a, sent[a] + 1))

AfterShared(a) == "fresh"

\* After any failure the connection is evicted, alive or not; whichever it is that the
\* pool has by then.
Shared(a) ==
  /\ pc[a] = "shared" /\ held' = Set(held, a, None)
  /\ \/ held[a] = "live" /\ Answered(a) /\ UNCHANGED <<pool, broken, faults>>
     \/ /\ \/ held[a] = "dead" /\ UNCHANGED <<sent, broken, faults>>
           \/ held[a] = "live" /\ Breaks(a)
        /\ pool' = None /\ Goto(a, AfterShared(a))
  /\ UNCHANGED <<tables, via, alpn, mode>>

\* The next attempt of an HTTP/1.1 agent; that of an HTTP/2 agent is the last.
AfterFresh(a) == IF alpn[a] = "http/1.1" THEN "plain" ELSE "failed"

\* Mutant: the HTTP/1.1 attempt follows whatever the HTTP/2 one has brought.
FreshAnswersBoth(a) ==
  Goto(a, "plain") /\ sent' = Set(sent, a, sent[a] + 1) /\ UNCHANGED pool

\* The new connection is shared from now on.
FreshAnswers(a) == Answered(a) /\ pool' = "live"

Fresh(a) ==
  /\ pc[a] = "fresh"
  /\ \/ speaks = "http/1.1" /\ Goto(a, "plain") /\ UNCHANGED <<pool, sent, broken, faults>>
     \/ speaks = "h2" /\ FreshAnswers(a) /\ UNCHANGED <<broken, faults>>
     \/ /\ Goto(a, AfterFresh(a)) /\ UNCHANGED pool
        /\ IF speaks = "h2" THEN Breaks(a) ELSE Fault /\ UNCHANGED sent
  /\ UNCHANGED <<tables, via, alpn, mode, held>>

\* forward_to_upstream: a connection of its own.
Plain(a) ==
  /\ pc[a] = "plain"
  /\ \/ Answered(a) /\ UNCHANGED <<broken, faults>>
     \/ Goto(a, "failed") /\ Breaks(a)
  /\ UNCHANGED <<tables, pool, via, alpn, mode, held>>

\* Upstream closes the connections it has, or the network does.
Close ==
  /\ faults < MaxFaults /\ faults' = faults + 1
  /\ pool = "live" /\ pool' = "dead"
  /\ held' = [a \in Agent |-> IF held[a] = "live" THEN "dead" ELSE held[a]]
  /\ broken' = [a \in Agent |-> IF held[a] = "live" THEN broken[a] + 1 ELSE broken[a]]
  /\ UNCHANGED <<tables, pc, via, alpn, mode, sent>>
-----------------------------------------------------------------------------
(* The answer *)

\* The response as the agent's protocol has it, and an entry in the audit log.
AnswerH1(a) == alpn[a] = "http/1.1" /\ Goto(a, "answered")
AnswerH2(a) == alpn[a] = "h2" /\ Goto(a, "answered")

Answer(a) ==
  /\ pc[a] = "answer" /\ (AnswerH1(a) \/ AnswerH2(a))
  /\ UNCHANGED <<tables, pool, via, alpn, mode, held, sent, broken, faults>>

Over(a) == pc[a] \in {"answered", "refused", "unresolved", "failed"}

\* The agent's next stream, with what its connection was given; or it has gone.
Again(a) ==
  /\ Over(a)
  /\ sent' = Set(sent, a, 0) /\ broken' = Set(broken, a, 0)
  /\ IF alpn[a] = "h2"
     THEN Goto(a, "request") /\ UNCHANGED <<alpn, mode>>
     ELSE /\ Goto(a, "idle") /\ alpn' = Set(alpn, a, None) /\ mode' = Set(mode, a, None)
  /\ UNCHANGED <<tables, pool, via, held, faults>>

Serve(a) ==
  \/ Accept(a) \/ ReadConnect(a) \/ Lookup(a) \/ Tunnel(a) \/ Tls(a) \/ ReadRequest(a)
  \/ Inject(a) \/ Take(a) \/ Shared(a) \/ Fresh(a) \/ Plain(a) \/ Answer(a) \/ Again(a)

Next == (\E a \in Agent : Serve(a)) \/ Sighup \/ HttpReload \/ Close

Spec == Init /\ [][Next]_vars
-----------------------------------------------------------------------------
(* properties *)

(* Upstream has a request once, and once more only for each attempt, its own *)
(* or of a stream beside it, that failed while it was on its way; it fails   *)
(* only when one did, and not because the shared connection had died before. *)
SentOncePerFailure ==
  \A a \in Agent :
    /\ pc[a] \in {"answer", "answered"} /\ Injects(mode[a]) =>
         sent[a] \in 1..(1 + broken[a])
    /\ pc[a] = "failed" /\ Injects(mode[a]) => broken[a] > 0 /\ sent[a] <= broken[a]

(* "Sending SIGHUP to the proxy rebuilds the transparent registry and the    *)
(* placeholder list in place" (TRANSPARENT.md:171), for every listener.      *)
EveryListenerFollows == [][Sighup => \A l \in Listener : table'[l] = registry']_vars
=============================================================================
