------------------------------ MODULE Deliveries ------------------------------
(***************************************************************************)
(* GitHub deliveries (src/src/server.py github_webhook() over GitHubService *)
(* in src/src/github.py): what is repeated, and what is handed on.         *)
(* Requests are coroutines of one event loop; GitHub repeats a delivery    *)
(* that it had no good answer to, and a person may do so at any time.      *)
(***************************************************************************)
EXTENDS Naturals, Sequences

CONSTANTS
  Request,      \* the requests that are served at the same time
  Delivery,     \* the deliveries, each with a name of its own
  WindowLength, \* how many names are remembered: 10,000
  MaxRequests,  \* bound on requests
  MaxRestarts   \* bound on restarts of the process

VARIABLES
  window,      \* _deliveries, the oldest first
  names,       \* _delivery_set
  request,     \* of each request: where it is, and which delivery it carries
  handled,     \* ghost: how often each was handed on since the process runs
  forgotten,   \* ghost: those that left the window
  spent        \* requests and restarts so far

vars == <<window, names, request, handled, forgotten, spent>>

Nothing == [at |-> "free"]

Init ==
  /\ window = <<>> /\ names = {}
  /\ request = [r \in Request |-> Nothing]
  /\ handled = [d \in Delivery |-> 0]
  /\ forgotten = {} /\ spent = [requests |-> 0, restarts |-> 0]

\* The body is read first, other requests are served meanwhile.
Receive(r, d) ==
  /\ request[r] = Nothing /\ spent.requests < MaxRequests
  /\ request' = [request EXCEPT ![r] = [at |-> "body", delivery |-> d]]
  /\ spent' = [spent EXCEPT !.requests = @ + 1]
  /\ UNCHANGED <<window, names, handled, forgotten>>

Answer(r) == request' = [request EXCEPT ![r] = Nothing]

\* The body is too large, or the signature is missing or is not of this secret.
Refuse(r) ==
  /\ request[r].at = "body" /\ Answer(r)
  /\ UNCHANGED <<window, names, handled, forgotten, spent>>

\* accept_delivery(): the name goes into both, and the oldest out of both.
\* Mutation: it is remembered once it was handed on.
RememberedLate(d) == UNCHANGED <<window, names, forgotten>>
Remembered(d) ==
  LET full == Len(window) = WindowLength
      gone == IF full THEN {Head(window)} ELSE {} IN
  /\ window' = Append(IF full THEN Tail(window) ELSE window, d)
  /\ names' = (names \ gone) \cup {d}
  /\ forgotten' = forgotten \cup gone

Repeated(r) ==
  /\ request[r].at = "body" /\ request[r].delivery \in names
  /\ Answer(r)
  /\ UNCHANGED <<window, names, handled, forgotten, spent>>

\* The name is remembered before the payload is decoded and handled.
Accept(r) ==
  /\ request[r].at = "body" /\ request[r].delivery \notin names
  /\ Remembered(request[r].delivery)
  /\ request' = [request EXCEPT ![r].at = "handling"]
  /\ handled' = [handled EXCEPT ![request[r].delivery] = @ + 1]
  /\ UNCHANGED spent

\* The workflow has taken it, or decoding or handling raised: the answer is an
\* error then, and the name stays.
Handled(r) ==
  /\ request[r].at = "handling" /\ Answer(r)
  /\ UNCHANGED <<window, names, handled, forgotten, spent>>

\* Names are kept in memory only.
Restart ==
  /\ spent.restarts < MaxRestarts
  /\ window' = <<>> /\ names' = {} /\ forgotten' = {}
  /\ request' = [r \in Request |-> Nothing]
  /\ handled' = [d \in Delivery |-> 0]
  /\ spent' = [spent EXCEPT !.restarts = @ + 1]

Next ==
  \/ \E r \in Request :
       \/ \E d \in Delivery : Receive(r, d)
       \/ Refuse(r) \/ Repeated(r) \/ Accept(r) \/ Handled(r)
  \/ Restart

Spec == Init /\ [][Next]_vars

-----------------------------------------------------------------------------
(* Properties                                                              *)

TypeOK ==
  /\ window \in Seq(Delivery) /\ Len(window) <= WindowLength
  /\ names \subseteq Delivery /\ forgotten \subseteq Delivery
  /\ handled \in [Delivery -> Nat]

\* However deliveries are repeated and overlap, one process hands a delivery on
\* once, as long as fewer others than the window holds have come since; the set
\* that is searched has exactly the names of the window.
HandedOnOnce ==
  /\ \A d \in Delivery \ forgotten : handled[d] <= 1
  /\ names = {window[i] : i \in 1 .. Len(window)}
  /\ \A i, j \in 1 .. Len(window) : window[i] = window[j] => i = j
=============================================================================
