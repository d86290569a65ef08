---------------------------- MODULE ServiceFile ----------------------------
(***************************************************************************)
(* What services.toml says, and what is made of it: the registry           *)
(* (ServiceRegistry::from_toml_file in src/src/proxy/registry.rs), the     *)
(* table of the transparent listener (proxy/transparent/registry.rs), and  *)
(* the verdict of --check (main.rs).  Who reloads beside whom is the       *)
(* subject of ServiceReload; here a reload is one step, and the entries of *)
(* the file have their contents.                                           *)
(*                                                                         *)
(* An entry that fails one of its checks is skipped, one that bears the    *)
(* name of an earlier one replaces it, and beyond MaxServices names the    *)
(* last in order are dropped.  The registry is a HashMap, so the table is  *)
(* built in an order that nobody chose.                                    *)
(***************************************************************************)
EXTENDS Naturals, FiniteSets
LOCAL INSTANCE Sequences
LOCAL INSTANCE SequencesExt
LOCAL INSTANCE Functions
LOCAL INSTANCE TLC

CONSTANTS
  Entry,         \* the entries an operator writes
  Asked,         \* the hosts and ports agents ask for
  MaxServices,   \* MAX_SERVICES
  MaxEdits,      \* bound: edits of the file
  None

VARIABLES
  disk,          \* is services.toml there and can it be read
  file,          \* its entries, in order
  up,            \* does the program run
  registry,      \* AppState.registry, by name
  table,         \* the TransparentRegistry of the listener
  loaded, built, \* ghosts: the entries the registry, the table are made from
  edits

madeVars == <<registry, loaded>>
tableVars == <<table, built>>
vars == <<disk, file, up, madeVars, tableVars, edits>>
-----------------------------------------------------------------------------
(* The checks of an entry.  name 0 stands for one that is blank or has      *)
(* control characters, item FALSE for a blank one, port 0 for none given.   *)

NameOK(e) == e.name # 0

ItemOK(e) == e.item

\* Without a scheme, "host:8123" would parse with the host as its scheme.
SchemeOK(e) == e.scheme \in {"http", "https"}

\* is_blocked_ip, for a literal address of either family.
BlockedAddress == {"loopback", "link", "zero", "broadcast"}

\* is_allowed_outbound_url: no credentials in it, and neither a well-known
\* name of this host or of a metadata service nor a blocked address.
AllowedOutbound(e) ==
  /\ SchemeOK(e) /\ ~e.userinfo
  /\ e.at \notin {"none", "known"} \union BlockedAddress

\* The keys each kind of auth cannot do without.
Required ==
  [bearer |-> {}, header |-> {"header_name"}, query_param |-> {"param_name"},
   basic |-> {"key_field", "secret_field"},
   session |-> {"login_path", "token_field"}, unifi_dual |-> {"login_path"},
   oauth_client_credentials |-> {"token_url"}, oauth_refresh |-> {"token_url"}]

LogsIn == {"session", "unifi_dual"}

\* Only a session's keys may not be empty, and no login path may climb.
AuthOK(e) ==
  /\ e.auth \in DOMAIN Required /\ Required[e.auth] \subseteq DOMAIN e.has
  /\ e.auth = "session" => \A k \in Required["session"] : e.has[k] # "empty"
  /\ e.auth \in LogsIn => e.has["login_path"] # "dots"

\* A CA file is read only where it counts: insecure_tls wins over it.
CaOK(e) == e.insecure \/ e.ca \in {"none", "good"}

TimeoutOK(e) == e.timeout # 0

ModeOK(e) ==
  /\ e.mode \in {"off", "host_inject", "placeholder", "passthrough"}
  /\ e.mode = "host_inject" => e.auth \notin LogsIn

Valid(e) ==
  /\ NameOK(e) /\ ItemOK(e) /\ SchemeOK(e) /\ AllowedOutbound(e)
  /\ AuthOK(e) /\ CaOK(e) /\ TimeoutOK(e) /\ ModeOK(e)

\* What is kept of an entry.
Stored(e) == [e EXCEPT !.ca = IF e.insecure THEN "none" ELSE @]
-----------------------------------------------------------------------------
(* The registry *)

\* Mutant: the first entry of a name stays.
RegisterOnce(reg, e) == reg @@ (e.name :> Stored(e))

Register(reg, e) == (e.name :> Stored(e)) @@ reg

\* The names beyond the cap, in sorted order, are dropped.
Capped(reg) ==
  Restrict(reg, {n \in DOMAIN reg :
                   Cardinality({m \in DOMAIN reg : m < n}) < MaxServices})

Entries(d, f) == IF d = "readable" THEN f ELSE <<>>

FromToml(d, f) == Capped(FoldLeft(Register, <<>>, SelectSeq(Entries(d, f), Valid)))

\* --check: 0 for a file that is not there yet, and for one without a
\* rejected entry.
ExitCode(d, f) ==
  LET accepted == Cardinality(DOMAIN FromToml(d, f))
      rejected == Len(Entries(d, f)) - accepted
  IN IF d = "gone" \/ (accepted > 0 /\ rejected = 0) THEN 0 ELSE 1
-----------------------------------------------------------------------------
(* The table of the transparent listener.  A host is the sequence of its    *)
(* labels; stars are the "*." in front of it.                               *)

Port(e) == IF e.port # 0 THEN e.port ELSE IF e.scheme = "http" THEN 80 ELSE 443

Exact(e, h, p) == e.stars = 0 /\ e.host = h /\ Port(e) = p

\* At least one label in front of the suffix.
Covers(e, h, p) == e.stars = 1 /\ IsStrictSuffix(e.host, h) /\ Port(e) = p

\* All but those that are off, in the order in which the HashMap gives them.
InOrder(reg, order) ==
  SelectSeq([i \in 1..Len(order) |-> reg[order[i]]], LAMBDA e : e.mode # "off")

\* build fails on an embedded "*", and on two services of one host and port.
Fails(reg) ==
  \E n \in DOMAIN reg :
    /\ reg[n].mode # "off"
    /\ \/ reg[n].stars > 1
       \/ \E m \in DOMAIN reg \ {n} :
            reg[m].mode # "off" /\ reg[n].stars = 0 /\ Exact(reg[m], reg[n].host, Port(reg[n]))

Build(reg, order) ==
  [exact |-> SelectSeq(InOrder(reg, order), LAMBDA e : e.stars = 0),
   wildcards |-> SelectSeq(InOrder(reg, order), LAMBDA e : e.stars = 1)]

\* The exact host before any wildcard, and of these the first that matches.
Lookup(tab, h, p) ==
  LET found == SelectSeq(tab.exact, LAMBDA e : Exact(e, h, p))
               \o SelectSeq(tab.wildcards, LAMBDA e : Covers(e, h, p))
  IN IF found = <<>> THEN None ELSE Head(found)
-----------------------------------------------------------------------------
Init ==
  /\ disk = "gone" /\ file = <<>> /\ up = TRUE
  /\ registry = FromToml("gone", <<>>) /\ loaded = <<>>
  /\ table = Build(registry, <<>>) /\ built = <<>>
  /\ edits = 0

\* The operator adds an entry, ...
AddEntry(e) ==
  /\ edits < MaxEdits
  /\ edits' = edits + 1
  /\ file' = Append(file, e) /\ disk' = "readable"
  /\ UNCHANGED <<up, madeVars, tableVars>>

\* ... removes the file or spoils it.
Spoil(d) ==
  /\ disk = "readable"
  /\ disk' = d
  /\ UNCHANGED <<file, up, madeVars, tableVars, edits>>

\* The rollback guard: no services now, and some before.
Refused == DOMAIN FromToml(disk, file) = {} /\ DOMAIN registry # {}

SwapRegistry == registry' = FromToml(disk, file) /\ loaded' = Entries(disk, file)

\* reload_services answers 404 when there is no file, and leaves the table.
HttpReload ==
  /\ up /\ disk # "gone" /\ ~Refused
  /\ SwapRegistry
  /\ UNCHANGED <<disk, file, up, tableVars, edits>>

\* The SIGHUP task takes the table along, unless it cannot be built.
Sighup(order) ==
  /\ up /\ ~Refused
  /\ SwapRegistry
  /\ IF Fails(registry') THEN UNCHANGED tableVars
     ELSE table' = Build(registry', order) /\ built' = loaded'
  /\ UNCHANGED <<disk, file, up, edits>>

\* At start there is no guard, and a table that cannot be built ends it.
Restart(order) ==
  /\ SwapRegistry
  /\ up' = ~Fails(registry')
  /\ table' = IF up' THEN Build(registry', order) ELSE Build(<<>>, <<>>)
  /\ built' = IF up' THEN loaded' ELSE <<>>
  /\ UNCHANGED <<disk, file, edits>>

Next ==
  \/ \E e \in Entry : AddEntry(e)
  \/ \E d \in {"gone", "torn"} : Spoil(d)
  \/ HttpReload
  \/ \E order \in SetToSeqs(DOMAIN FromToml(disk, file)) : Sighup(order) \/ Restart(order)

Spec == Init /\ [][Next]_vars
-----------------------------------------------------------------------------
(* Properties *)

TypeOK ==
  /\ disk \in {"gone", "torn", "readable"} /\ file \in Seq(Entry) /\ up \in BOOLEAN
  /\ DOMAIN registry \subseteq {e.name : e \in Entry} /\ edits \in 0..MaxEdits

\* The entries of f that count: each the last sound one of its name, and of
\* one of the first MaxServices names that have a sound one.
InForce(f) ==
  {i \in DOMAIN f :
     /\ Valid(f[i])
     /\ \A j \in DOMAIN f : j > i /\ Valid(f[j]) => f[j].name # f[i].name
     /\ Cardinality({f[j].name : j \in {k \in DOMAIN f : Valid(f[k]) /\ f[k].name < f[i].name}})
          < MaxServices}

\* The registry has what counts in the file it was read from and nothing else.
RegisteredAsWritten ==
  {registry[n] : n \in DOMAIN registry} = {Stored(loaded[i]) : i \in InForce(loaded)}

\* An agent that asks for a host gets the service the file names for it, or
\* else one whose wildcard covers it, and never one whose credential
\* inject_host cannot inject.
ServedAsWritten ==
  \A a \in Asked :
    LET got   == Lookup(table, a.host, a.port)
        seen  == {built[i] : i \in {k \in InForce(built) : built[k].mode # "off"}}
        named == {e \in seen : Exact(e, a.host, a.port)}
        wild  == {e \in seen : Covers(e, a.host, a.port)}
        owner == IF named # {} THEN named ELSE wild
    IN IF owner = {} THEN got = None
       ELSE /\ got \in {Stored(e) : e \in owner}
            /\ got.mode = "host_inject" => got.auth \notin LogsIn

\* --check passes a file exactly if every entry of it would count.
CheckTells ==
  ExitCode(disk, file) = 0 <=>
    \/ disk = "gone"
    \/ disk = "readable" /\ file # <<>> /\ InForce(file) = DOMAIN file

FileServed == RegisteredAsWritten /\ ServedAsWritten /\ CheckTells

(* The next two do not hold; see the README. *)

\* No two services can be meant by one request.
CollisionsRejected ==
  \A a \in Asked :
    Cardinality({e \in {table.wildcards[i] : i \in DOMAIN table.wildcards} :
                   Covers(e, a.host, a.port)}) <= 1

\* A file that --check has passed is one the program starts with.
CheckedFileStarts ==
  ExitCode(disk, file) = 0 => ~Fails(FromToml(disk, file))
=============================================================================
