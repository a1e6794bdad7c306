----------------------------- MODULE MCSession -----------------------------
EXTENDS Session

OneConsumer == [cl \in Clients |-> "c"]
RootToken   == [cl \in Clients |-> "root"]

Environment(token, retries, inFlight) ==
    [ ROOT_TOKEN |-> token, DB_CONNECT_RETRIES |-> retries, MAX_IN_FLIGHT |-> inFlight,
      DB_CONNECT_RETRY_DELAY_MS |-> {}, MAX_MESSAGE_SIZE |-> {},
      MAX_ROUTING_KEY_LENGTH |-> {}, MAX_QUEUE_FILTERS |-> {} ]

\* One the clients can work with, and one each that is wrong: another token,
\* no token, a limit of zero, a number of retries that is none.
GoodAndBad == { Environment({"root"}, {2}, {1}),
                Environment({"other"}, {2}, {1}),
                Environment({}, {}, {}),
                Environment({"root"}, {}, {0}),
                Environment({"root"}, {NotANumber}, {}) }

\* What may change at a restart; with one attempt to connect.
Changing == { Environment({"root"}, {1}, {1}),
              Environment({"other"}, {1}, {1}),
              Environment({"root"}, {1}, {0}) }

Symmetry == Permutations(Calls)
============================================================================
