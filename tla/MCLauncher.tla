------------------------------ MODULE MCLauncher ------------------------------
(***************************************************************************)
(* An instance of Launcher: a few machines and what their networks do.     *)
(***************************************************************************)
EXTENDS Launcher

CONSTANT Scenario   \* which environments are considered

MCInterfaces == {"lo", "eth", "ib"}

\* A machine reaches each of its own addresses from that same address; it has
\* a loopback and an Ethernet interface.  From another machine, the loopback
\* address leads to the caller itself; the Ethernet does as given.
Net(eth, lo) ==
    [a \in 0..MaxHosts |-> [b \in 0..MaxHosts |->
        [i \in MCInterfaces |-> CASE i = "ib"  -> "refused"
                                 [] a = b     -> i
                                 [] i = "eth" -> eth
                                 [] i = "lo"  -> lo]]]

\* The same with another interface between the hosts, whose packets from host
\* 2 to host 0 leave by the Ethernet.
Uneven(net) ==
    [a \in 0..MaxHosts |-> [b \in 0..MaxHosts |->
        [net[a][b] EXCEPT !["ib"] =
            CASE Here \in {a, b}    -> "refused"
              [] a = 2 /\ b = 0     -> "eth"
              [] OTHER              -> "ib"]]]

Env(local, route) ==
    [hosts |-> 2, local |-> local, route |-> route, nic |-> "none", openmpi |-> TRUE,
     losses |-> 0, crashes |-> 0]

\* A ring of three remote hosts, one link of which has an interface less; two
\* remote hosts and two losses; the launcher on one of two hosts with a loss,
\* and with a crash; without either, hosts whose addresses are translated or
\* answer on another interface, a chosen interface with and without Open MPI,
\* and names that all are this machine.
MCSetups ==
    LET away == Env({}, Net("eth", "other"))
        here == Env({0}, Net("eth", "other"))
    IN  CASE Scenario = "handshake" ->
                {[away EXCEPT !.hosts = 3, !.route = Uneven(@)],
                 [away EXCEPT !.losses = 2], [here EXCEPT !.losses = 1],
                 [here EXCEPT !.crashes = 1],
                 Env({0}, Net("nat", "other")), Env({}, Net("lo", "refused")),
                 [here EXCEPT !.nic = "eth"],
                 [here EXCEPT !.nic = "eth", !.openmpi = FALSE],
                 Env({0, 1}, Net("eth", "refused"))}
          [] Scenario = "resolve" -> {here}
=============================================================================
