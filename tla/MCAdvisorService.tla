------------------------- MODULE MCAdvisorService -------------------------
(***************************************************************************)
(* Small instances of AdvisorService for TLC: two hosts of one             *)
(* organisation, two sources, three rules, a pool of two threads.          *)
(***************************************************************************)
EXTENDS AdvisorService

CONSTANTS h1, h2, o1, client, third, acc, noacc, r1, r2, ra, x1, n1, n2, s1, w1, w2

In(host, source, hits) ==
  [type |-> "ingest", valid |-> TRUE, host |-> host, source |-> source,
   account |-> acc, hits |-> hits]

Del(host) == [In(host, client, {}) EXCEPT !.type = "delete"]
Other     == [In(h1, client, {}) EXCEPT !.type = "other"]
Malformed == [In(h1, client, {}) EXCEPT !.type = "malformed"]
Bad       == [In(h1, client, {}) EXCEPT !.valid = FALSE]

MCOrgOf       == [h \in Hosts |-> o1]
MCAccountOf   == [h \in Hosts |-> acc]
MCHostAcks    ==
  [h \in Hosts |-> IF h = h1 THEN {[rule |-> r2, account |-> acc], [rule |-> r1, account |-> noacc]} ELSE {}]

\* The account disappears between two uploads of a host.
AccountLogs ==
  {<<In(h1, client, {r1}), [In(h1, client, {r1}) EXCEPT !.account = noacc]>>}

\* Two sources race for one host; an upload, a delete and a new upload, with
\* and without reports; two deletes; an organisation that may be new;
\* systems the filters reduce, one to another rule of a filter, one to more of
\* its rules and another account before a delete; a host whose account
\* disappears; messages nobody acts on.  The second host is replicated before
\* the run, the first may be.
PoolLogs ==
  { <<In(h1, client, {r1, r2}), In(h1, third, {r1})>>,
    <<In(h1, client, {r1}), Del(h1), In(h1, client, {r1, r2})>>,
    <<In(h1, client, {}), Del(h1), In(h1, client, {r1})>>,
    <<Del(h1), In(h1, client, {r1}), Del(h1)>>,
    <<In(h1, client, {r1, ra}), In(h2, client, {ra, x1})>>,
    <<In(h1, client, {r1, n1}), In(h1, client, {r1, s1})>>,
    <<In(h1, client, {n2}), In(h1, third, {r1, n1})>>,
    <<In(h1, client, {n1}), [In(h1, third, {r1, n1, n2}) EXCEPT !.account = noacc], Del(h1)>>,
    <<Malformed, Other, Bad, In(h1, client, {r1})>> }
    \union AccountLogs

NoHosts   == {{}}
PoolHosts == {{h2}, Hosts}
===========================================================================
