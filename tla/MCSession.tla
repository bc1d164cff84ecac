----------------------------- MODULE MCSession ------------------------------
\* Environments and arguments for model-checking Session.
EXTENDS Session, TLC

Env(addr, port, user, pass, tls, host, db) ==
  [addr |-> addr, port |-> port, user |-> user, pass |-> pass, tls |-> tls, host |-> host, db |-> db]

\* Nothing set; a password; a user, a password and TLS; MEMX_ADDR; TLS on the default port.
SomeEnvs ==
  {Env(0, 0, "", "", FALSE, "local", 0), Env(0, 1, "", "pw", FALSE, "local", 0),
   Env(0, 3, "u", "pw", TRUE, "local", 0), Env(3, 0, "", "", FALSE, "local", 0),
   Env(0, 0, "", "", TRUE, "local", 0)}

\* The default address, the address of Other, one on another machine, a URL with a password
\* and a database, the output of memx-url, a redis:// URL.
SomeArgs ==
  {[kind |-> "addr", host |-> "local", port |-> 1], [kind |-> "addr", host |-> "local", port |-> 2],
   [kind |-> "addr", host |-> "remote", port |-> 1],
   [kind |-> "url", text |-> [tls |-> FALSE, host |-> "local", port |-> 0,
                              userInfo |-> <<"", "pw">>, path |-> <<1>>]],
   [kind |-> "memx-url"], [kind |-> "foreign"]}
=============================================================================
