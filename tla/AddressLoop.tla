------------------------------ MODULE AddressLoop ------------------------------
(***************************************************************************)
(* src/servers/util.c: client_socket() and server_socket() try the         *)
(* addresses getaddrinfo() returns, one after another, until one serves.   *)
(* program is the function's name.                                         *)
(***************************************************************************)
EXTENDS Executable, Integers, FiniteSets

CONSTANT Addresses     \* how many addresses there are at most

ASSUME AddressAssumption == Addresses \in Nat

VARIABLES tries,       \* where the function is: "off", or the call that is next
          results,     \* how many addresses there are
          rp,          \* the one that is tried
          made,        \* the sockets that are open, by address
          refused,     \* the addresses that did not serve
          result       \* the address of the socket returned, -1 for none, 0 before

addressVars == <<tries, results, rp, made, refused, result>>

AddressPrograms == {"client_socket", "server_socket"}

AddressTypeOK ==
    /\ tries \in {"off", "socket", "setsockopt", "use", "close", "listen", "returned"}
    /\ results \in 0 .. Addresses
    /\ rp \in 1 .. Addresses + 1
    /\ made \subseteq 1 .. Addresses
    /\ refused \subseteq 1 .. Addresses
    /\ result \in -1 .. Addresses

\* getaddrinfo() may fail, which is as good as no address.
AddressInit ==
    /\ IF program \in AddressPrograms
       THEN results \in 0 .. Addresses /\ tries = "socket"
       ELSE results = 0 /\ tries = "off"
    /\ rp = 1
    /\ made = {}
    /\ refused = {}
    /\ result = 0

Returns(value) == tries' = "returned" /\ result' = value

\* socket(); when it fails the next address is tried.
MakeSocket ==
    /\ tries = "socket"
    /\ rp <= results
    /\ \/ /\ made' = made \union {rp}
          /\ tries' = IF program = "server_socket" THEN "setsockopt" ELSE "use"
          /\ UNCHANGED <<rp, refused>>
       \/ /\ rp' = rp + 1
          /\ refused' = refused \union {rp}
          /\ UNCHANGED <<made, tries>>
    /\ UNCHANGED <<results, result>>

NoAddressLeft ==
    /\ tries = "socket"
    /\ rp > results
    /\ Returns(-1)
    /\ UNCHANGED <<results, rp, made, refused>>

\* SO_REUSEADDR is set to what happens to be in optval.
SetOption ==
    /\ tries = "setsockopt"
    /\ \/ tries' = "use" /\ UNCHANGED <<made, result>>
       \/ Returns(-1) /\ made' = made \ {rp}
    /\ UNCHANGED <<results, rp, refused>>

\* connect() or bind(); bind() may fail because of that option too.
UseAddress ==
    /\ tries = "use"
    /\ \/ /\ IF program = "server_socket" THEN tries' = "listen" /\ UNCHANGED result
                                          ELSE Returns(rp)
          /\ UNCHANGED refused
       \/ tries' = "close" /\ refused' = refused \union {rp} /\ UNCHANGED result
    /\ UNCHANGED <<results, rp, made>>

\* mutant: a socket that could not be connected or bound is not closed
NextAddressOnly ==
    /\ tries = "close"
    /\ tries' = "socket"
    /\ rp' = rp + 1
    /\ UNCHANGED <<results, made, refused, result>>

CloseSocket ==
    /\ tries = "close"
    /\ tries' = "socket"
    /\ made' = made \ {rp}
    /\ rp' = rp + 1
    /\ UNCHANGED <<results, refused, result>>

Listen ==
    /\ tries = "listen"
    /\ \/ Returns(rp) /\ UNCHANGED made
       \/ Returns(-1) /\ made' = made \ {rp}
    /\ UNCHANGED <<results, rp, refused>>

AddressNext ==
    MakeSocket \/ NoAddressLeft \/ SetOption \/ UseAddress \/ CloseSocket \/ Listen

----------------------------------------------------------------------------
\* Whichever calls fail, the function returns with one socket open, for the first address
\* that serves, or with -1 and none.
NoSocketLeaked ==
    tries = "returned" =>
        \/ result = -1 /\ made = {}
        \/ result > 0 /\ made = {result} /\ refused = 1 .. result - 1

\* At most the socket of the address that is tried is open, and all before it were refused.
OneAtATime ==
    /\ rp <= results + 1
    /\ tries = "socket" => made = {} /\ refused = 1 .. rp - 1
    /\ tries \in {"setsockopt", "use", "listen"} =>
          rp <= results /\ made = {rp} /\ refused = 1 .. rp - 1
    /\ tries = "close" => rp <= results /\ made = {rp} /\ refused = 1 .. rp

AddressInv == AddressTypeOK /\ OneAtATime /\ NoSocketLeaked
=============================================================================
