----------------------------- MODULE MCFrontend -----------------------------
(***************************************************************************)
(* Two clients of the proxy and descriptors for one relayed connection: one  *)
(* client may speak any of the protocols, well or ill, the other wants what *)
(* is refused, and may take its time over it or leave.                      *)
(***************************************************************************)
EXTENDS Frontend

CONSTANTS c1, c2

MCClients == {c1, c2}

data == <<"d1", "d2">>

(* A script, with what follows the request. *)
Says(kind, request, rest, impatient) ==
  [proto |-> kind, said |-> request \o rest, head |-> Len(request), eager |-> impatient]

Socks5 ==
  {<<"v5", "no auth", "connect", "name", "len", "host">>, <<"v5", "no auth", "connect", "ip", "address">>}

Socks4 ==
  {<<"v4 connect", "ip", "id">>, <<"v4 connect", "0.0.0.x", "id", "host">>}

crlf == <<"cr", "lf">>

Connects == <<"CONNECT", "target", "version">> \o crlf \o <<"header">> \o crlf \o crlf

Get == <<"GET", "url", "version">> \o crlf \o <<"cookie">> \o crlf \o crlf

(* Requests with a flaw, or for what the proxy does not do. *)
Refused ==
  {Says("socks5", r, <<>>, TRUE) : r \in
     {<<"v5", "auth">>, <<"v5", "no auth", "bind", "ip">>, <<"v5", "no auth", "connect", "other">>,
      <<"v5", "no auth", "bad version", "ip">>, <<"v5", "no auth", "connect", "name", "zero">>,
      <<"v5", "no auth", "connect", "name", "len", "bad host">>}}
  \cup {Says("socks4", r, <<>>, TRUE) : r \in
     {<<"v4 bind", "ip">>, <<"v4 connect", "ip", "long">>,
      <<"v4 connect", "0.0.0.x", "id", "bad host">>}}
  \cup {Says("connect", <<"CONNECT", "bad port", "version">> \o crlf \o crlf, <<>>, FALSE),
        Says("forward", <<"GET", "url">> \o crlf, <<>>, FALSE),
        Says("other", <<"junk">>, <<>>, TRUE)}

MCScripts ==
  [c \in MCClients |->
     IF c = c2 THEN {Says("socks4", <<"v4 bind", "ip">>, <<>>, TRUE)}
     ELSE Refused
          \cup {Says("socks5", r, data, TRUE) : r \in Socks5}
          \cup {Says("socks4", r, data, TRUE) : r \in Socks4}
          \cup {Says("connect", Connects, data, e) : e \in BOOLEAN}
          \cup {Says("forward", Get, <<"d1">>, FALSE)}]

MCDirect == Says("direct", <<>>, data, TRUE)
=============================================================================
