-------------------------------- MODULE TcpSink --------------------------------
(***************************************************************************)
(* tcp_sink (sinks/tcp_sink.h) over tcp_client (details/tcp_client.h, and  *)
(* for Windows details/tcp_client-windows.h).  The sink's mutex lets one   *)
(* message through at a time; what the network answers to each call is     *)
(* open.  A message goes in parts; a send that fails closes the connection *)
(* and throws, and the next message connects again.  (A send that takes    *)
(* nothing is not modelled: for a part that is not empty there is none.)   *)
(***************************************************************************)
EXTENDS Integers, Sequences, FiniteSets

CONSTANTS Builds,                     \* which tcp_client there is: TRUE is that of Windows
          Addresses,                  \* how many addresses the host has
          Parts,                      \* of a message
          MaxMessages, MaxSockets     \* bounds

VARIABLES windows,          \* which tcp_client it is
          alive, lazy,      \* the sink, and its lazy_connect
          socket_,          \* of tcp_client, 0 if none
          rp,               \* the address tried, 0 outside of connect
          cur, sent,        \* the message under way, 0 if none; how much of it is sent
          open,             \* the sockets there are
          sockets,          \* how many there have been
          wsa,              \* how often Winsock has been started
          wire,             \* of each socket: what the network has taken
          logged, failed,   \* messages given to the sink; those of which an error was told
          tried             \* the addresses the last connect has tried

vars == <<windows, alive, lazy, socket_, rp, cur, sent, open, sockets, wsa, wire, logged, failed, tried>>

Part(m, i) == <<m, i>>
is_connected == socket_ # 0
idle == rp = 0 /\ cur = 0

Init == /\ windows \in Builds /\ alive = FALSE /\ lazy \in BOOLEAN
        /\ socket_ = 0 /\ rp = 0 /\ cur = 0 /\ sent = 0
        /\ open = {} /\ sockets = 0 /\ wsa = 0 /\ wire = [s \in 1..MaxSockets |-> <<>>]
        /\ logged = 0 /\ failed = {} /\ tried = {}

\* WSACleanup: the last one closes every socket.
Cleaned(n) == IF n > 0 THEN n - 1 ELSE 0

ClosePosix == socket_' = 0 /\ open' = open \ {socket_} /\ UNCHANGED wsa
CloseWindows == socket_' = 0 /\ wsa' = Cleaned(wsa) /\ open' = IF wsa <= 1 THEN {} ELSE open \ {socket_}
close == IF windows THEN CloseWindows ELSE ClosePosix

\* The exception that ends connect or send: of the message, or of the constructor.
Throw == /\ rp' = 0 /\ cur' = 0 /\ sent' = 0
         /\ failed' = IF cur = 0 THEN failed ELSE failed \cup {cur}
         /\ alive' = (alive /\ cur # 0)
         /\ UNCHANGED <<windows, lazy, logged>>

\* The beginning of connect, up to getaddrinfo; on Windows, WSAStartup if no socket can
\* be made. It closes the socket there may be (none: connect is called without one).
ConnectBegins(m) == /\ rp' = 1 /\ cur' = m /\ sent' = 0 /\ tried' = {}
                    /\ wsa' = IF windows /\ wsa = 0 THEN 1 ELSE wsa
                    /\ UNCHANGED <<windows, lazy, socket_, open, sockets, wire, failed>>

Construct == /\ ~alive /\ idle /\ sockets = 0
             /\ alive' = TRUE
             /\ IF lazy THEN UNCHANGED <<windows, lazy, socket_, rp, cur, sent, open, sockets, wsa,
                                           wire, failed, tried>>
                ELSE ConnectBegins(0)
             /\ UNCHANGED logged

\* sink_it_: the message goes out at once, or after connect.
Log == /\ alive /\ idle /\ logged < MaxMessages
       /\ logged' = logged + 1
       /\ IF is_connected
          THEN /\ cur' = logged + 1 /\ sent' = 0
               /\ UNCHANGED <<windows, lazy, socket_, rp, open, sockets, wsa, wire, failed, tried>>
          ELSE ConnectBegins(logged + 1)
       /\ UNCHANGED alive

\* getaddrinfo fails.
NoAddress == /\ rp = 1 /\ tried = {}
             /\ wsa' = IF windows THEN Cleaned(wsa) ELSE wsa
             /\ Throw
             /\ UNCHANGED <<socket_, open, sockets, wire, tried>>

\* The loop over the addresses: this one answers.
Connects == /\ rp \in 1..Addresses /\ sockets < MaxSockets /\ (windows => wsa > 0)
            /\ sockets' = sockets + 1
            /\ socket_' = sockets + 1 /\ open' = open \cup {sockets + 1}
            /\ tried' = tried \cup {rp} /\ rp' = 0
            /\ UNCHANGED <<windows, alive, lazy, cur, sent, wsa, wire, logged, failed>>

\* It does not: its socket is closed. On Windows, by close().
ConnectRefused ==
    /\ rp \in 1..Addresses /\ (windows => wsa > 0)
    /\ tried' = tried \cup {rp} /\ rp' = rp + 1
    /\ wsa' = IF windows THEN Cleaned(wsa) ELSE wsa
    /\ UNCHANGED <<windows, alive, lazy, socket_, cur, sent, open, sockets, wire, logged, failed>>

\* There is no socket for it: on Windows, when Winsock is not started. (With Winsock started
\* a socket that is not there would also be one too many WSACleanup; that is left out.)
NoSocket == /\ rp \in 1..Addresses /\ (windows => wsa = 0)
            /\ rp' = rp + 1 /\ tried' = IF windows THEN tried ELSE tried \cup {rp}
            /\ UNCHANGED <<windows, alive, lazy, socket_, cur, sent, open, sockets, wsa, wire, logged, failed>>

\* After the last address.
ConnectFails == /\ rp = Addresses + 1
                /\ wsa' = IF windows THEN Cleaned(wsa) ELSE wsa
                /\ Throw
                /\ UNCHANGED <<socket_, open, sockets, wire, tried>>

\* send: the network takes some of the rest.
Send(n) == /\ cur # 0 /\ rp = 0 /\ n <= Parts - sent
           /\ wire' = [wire EXCEPT ![socket_] = @ \o [i \in 1..n |-> Part(cur, sent + i)]]
           /\ IF sent + n = Parts THEN cur' = 0 /\ sent' = 0 ELSE sent' = sent + n /\ UNCHANGED cur
           /\ UNCHANGED <<windows, alive, lazy, socket_, rp, open, sockets, wsa, logged, failed, tried>>

\* MUTANT of SendFails: the connection is kept.
SendFailsOpen == /\ cur # 0 /\ rp = 0 /\ Throw
                 /\ UNCHANGED <<socket_, open, wsa, sockets, wire, tried>>

SendFails == /\ cur # 0 /\ rp = 0 /\ close /\ Throw
             /\ UNCHANGED <<sockets, wire, tried>>

\* The destructor. On POSIX close() looks whether there is a socket.
Destruct == /\ alive /\ idle
            /\ alive' = FALSE
            /\ IF windows \/ is_connected THEN close ELSE UNCHANGED <<socket_, open, wsa>>
            /\ UNCHANGED <<windows, lazy, rp, cur, sent, sockets, wire, logged, failed, tried>>

Next == \/ Construct \/ Log \/ NoAddress \/ Connects \/ ConnectRefused \/ NoSocket \/ ConnectFails
        \/ (\E n \in 1..Parts : Send(n)) \/ SendFails \/ Destruct

Spec == Init /\ [][Next]_vars
------------------------------------------------------------------------------
TypeOK == /\ windows \in Builds /\ alive \in BOOLEAN /\ lazy \in BOOLEAN
          /\ socket_ \in 0..MaxSockets /\ rp \in 0..(Addresses + 1)
          /\ cur \in 0..MaxMessages /\ sent \in 0..(Parts - 1) /\ open \subseteq 1..MaxSockets
          /\ wsa \in 0..1 /\ logged \in 0..MaxMessages /\ failed \subseteq 1..MaxMessages

WholeOn(m, s) == \E i \in DOMAIN wire[s] : wire[s][i] = Part(m, Parts)
Done == (1..logged) \ {cur}

(***************************************************************************)
(* A reader of any connection finds the messages in the order they were    *)
(* logged, each from its beginning and without another in it; one that is  *)
(* cut short is the last of its connection, which is then no longer used.  *)
(* And of every message the sink is done with, either all of it is sent,   *)
(* once, or an error was told ("Send exactly n_bytes ... On error close    *)
(* the connection and throw", tcp_client.h:118).                           *)
(***************************************************************************)
StreamsAreWhole ==
    /\ \A s \in 1..MaxSockets :
          LET w == wire[s] IN
            /\ w # <<>> => w[1][2] = 1
            /\ \A i \in 2..Len(w) : \/ w[i][1] = w[i - 1][1] /\ w[i][2] = w[i - 1][2] + 1
                                    \/ w[i][1] > w[i - 1][1] /\ w[i][2] = 1 /\ w[i - 1][2] = Parts
            /\ w # <<>> /\ w[Len(w)][2] < Parts => s # socket_ \/ cur = w[Len(w)][1]
    /\ \A m \in Done : m \notin failed <=> \E s \in 1..MaxSockets : WholeOn(m, s)
    /\ \A s, t \in 1..MaxSockets, m \in Done : WholeOn(m, s) /\ WholeOn(m, t) => s = t

(***************************************************************************)
(* The only socket that is open is the one the client knows, and a sink    *)
(* that is gone has none.                                                  *)
(***************************************************************************)
NoSocketLeaks == /\ open = IF is_connected THEN {socket_} ELSE {}
                 /\ ~alive /\ idle => open = {} /\ wsa = 0
==============================================================================
