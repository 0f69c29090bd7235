--------------------------- MODULE MCHttpGateway ---------------------------
EXTENDS HttpGateway, TLC

Deployment(credentials, timeout, limit, exempt, until) ==
    [cookie |-> "cookie" \in credentials, static |-> "static" \in credentials,
     postgres |-> "postgres" \in credentials, timeout |-> timeout, limit |-> limit,
     exempt |-> exempt, until |-> until]

\* In memory without credentials, with keys of the configuration and with
\* users (whose tokens expire in the last one only); over Postgres with users
\* and API keys.  Of what may be configured to need no authentication, a route
\* that changes something for anybody and one that a role guards.
MCSettings == {Deployment({}, FALSE, TRUE, {}, 3),
               Deployment({"static"}, FALSE, FALSE, {}, 1),
               Deployment({"cookie", "static"}, FALSE, FALSE,
                          {"logout", "createUser"}, 0),
               Deployment({"cookie", "postgres"}, FALSE, FALSE, {}, 1)}

\* As deployed: the timeout is on unless it is turned off.
MCDefaultSettings == {Deployment({"static", "postgres"}, TRUE, FALSE, {}, 0)}

MCSymmetry == Permutations(Slot)
=============================================================================
