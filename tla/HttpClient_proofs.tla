------------------------- MODULE HttpClient_proofs -------------------------
(***************************************************************************)
(* ClientInv of HttpClient is inductive; the safety properties of a call   *)
(* follow from it for every set of hosts and every configured limit.       *)
(***************************************************************************)
EXTENDS HttpClient, TLAPS

\* A call starts with nothing sent and nothing counted.
LEMMA InitClientInv == Init => ClientInv
<1> SUFFICES ASSUME Init PROVE ClientInv
    OBVIOUS
<1> USE ClientAssumption
<1>1. TypeOK
    <2>1. req \in Requests /\ outcome \in Outcomes
        BY DEF Init, Outcomes, Pending
    <2>2. /\ host \in Hosts /\ method \in Methods
          /\ params \in BOOLEAN /\ body \in BOOLEAN
        BY DEF Init, Requests
    <2>3. attempt \in 1..MaxAttempts /\ redirects \in 0..req.maxRedirects
        BY DEF Init, Requests, MaxAttempts
    <2>4. QED
        BY <2>1, <2>2, <2>3 DEF Init, TypeOK
<1>2. SendsAccounted /\ CurrentConfined
    BY DEF Init, SendsAccounted, CurrentConfined, Pending
<1>3. HostConfinement /\ RedirectStripsRequest /\ RetriesSpentBeforeFailure
    BY DEF Init, HostConfinement, RedirectStripsRequest, RetriesSpentBeforeFailure,
           Pending, TransportErrors, Retryable
<1>4. QED
    BY <1>1, <1>2, <1>3 DEF ClientInv

\* Ending the call keeps the invariant, whatever the outcome, provided a
\* transient failure is reported with every attempt spent.
LEMMA FinishKeepsInv ==
    ASSUME ClientInv, UNCHANGED <<allowNetwork, req>>,
           NEW kind, NEW status,
           [kind |-> kind, status |-> status] \in Outcomes,
           Finish(kind, status), pc # "done",
           pc = "send" => kind = "network_disabled" /\ sends = 0,
           kind = "network_disabled" => status = "none",
           kind \in TransportErrors \/ status = Retryable
              => pc = "await" /\ attempt = MaxAttempts
    PROVE  ClientInv'
<1> USE ClientAssumption
<1>1. TypeOK'
    BY DEF ClientInv, TypeOK, Finish, current, history, Requests, MaxAttempts
<1>2. SendsAccounted'
    BY DEF ClientInv, TypeOK, SendsAccounted, Finish, current, history, Pending, MaxAttempts
<1>3. (CurrentConfined /\ HostConfinement /\ RedirectStripsRequest)'
    BY DEF ClientInv, CurrentConfined, HostConfinement, RedirectStripsRequest,
           Finish, current, history
<1>4. RetriesSpentBeforeFailure'
    BY DEF ClientInv, TypeOK, SendsAccounted, RetriesSpentBeforeFailure, Finish,
           current, history, MaxAttempts, TransportErrors, Retryable
<1>5. QED
    BY <1>1, <1>2, <1>3, <1>4 DEF ClientInv

\* Going round the loop for another attempt keeps the invariant.
LEMMA RetryKeepsInv ==
    ASSUME ClientInv, UNCHANGED <<allowNetwork, req>>,
           pc = "await", attempt < MaxAttempts, Retry
    PROVE  ClientInv'
<1> USE ClientAssumption
<1>1. TypeOK'
    BY DEF ClientInv, TypeOK, Retry, current, history, Requests, MaxAttempts
<1>2. SendsAccounted'
    BY DEF ClientInv, TypeOK, SendsAccounted, Retry, current, history, Pending, MaxAttempts
<1>3. (CurrentConfined /\ HostConfinement /\ RedirectStripsRequest)'
    BY DEF ClientInv, CurrentConfined, HostConfinement, RedirectStripsRequest,
           Retry, current, history
<1>4. RetriesSpentBeforeFailure'
    BY DEF ClientInv, SendsAccounted, RetriesSpentBeforeFailure, Retry, Pending,
           TransportErrors, Retryable
<1>5. QED
    BY <1>1, <1>2, <1>3, <1>4 DEF ClientInv

\* Putting a message on the wire keeps the invariant.
LEMMA SendKeepsInv ==
    ASSUME ClientInv, UNCHANGED <<allowNetwork, req>>, Send
    PROVE  ClientInv'
<1> USE ClientAssumption
<1> DEFINE m == [host |-> host, method |-> method, params |-> params,
                 body |-> body, hop |-> redirects, afterSeeOther |-> seenOther]
<1>1. sends < SendCap
    BY DEF Send, ClientInv, TypeOK, SendsAccounted, SendCap, MaxAttempts, Requests
<1>2. /\ pc = "send" /\ pc' = "await"
      /\ wire' = wire \cup {m}
      /\ sends' = sends + 1
      /\ UNCHANGED <<host, method, params, body, attempt, redirects, outcome,
                     seenOther, allowNetwork, req>>
    BY <1>1 DEF Send, current
<1>3. m \in Messages
    BY DEF ClientInv, TypeOK, Messages, Requests
<1>4. TypeOK'
    BY <1>2, <1>3 DEF ClientInv, TypeOK
<1>5. (SendsAccounted /\ CurrentConfined)'
    BY <1>2 DEF Send, ClientInv, TypeOK, SendsAccounted, CurrentConfined, MaxAttempts, Requests
<1>6. (HostConfinement /\ RedirectStripsRequest)'
    BY <1>2 DEF ClientInv, TypeOK, CurrentConfined, HostConfinement, RedirectStripsRequest
<1>7. RetriesSpentBeforeFailure'
    BY <1>2 DEF ClientInv, SendsAccounted, RetriesSpentBeforeFailure, Pending,
                TransportErrors, Retryable
<1>8. QED
    BY <1>4, <1>5, <1>6, <1>7 DEF ClientInv

\* Following a redirect keeps the invariant.
LEMMA FollowKeepsInv ==
    ASSUME ClientInv, UNCHANGED <<allowNetwork, req>>, FollowRedirect
    PROVE  ClientInv'
<1> USE ClientAssumption
<1>1. PICK status \in Redirects, loc \in Locations:
           SafeRedirect(loc) /\ Redirected(status, loc)
    BY DEF FollowRedirect
<1>2. /\ pc = "await" /\ pc' = "send" /\ RedirectsLeft
      /\ UNCHANGED <<outcome, wire, sends>>
    BY DEF FollowRedirect
<1>3. loc.host \in Hosts
    BY DEF Locations
<1>4. TypeOK'
    <2>1. method' \in Methods
        BY <1>1 DEF ClientInv, TypeOK, Redirected, Methods
    <2>2. (params \in BOOLEAN /\ body \in BOOLEAN /\ seenOther \in BOOLEAN)'
        BY <1>1, Zenon DEF Redirected
    <2>3. redirects' \in 0..req'.maxRedirects
        BY <1>1, <1>2 DEF ClientInv, TypeOK, Redirected, RedirectsLeft, Requests
    <2>4. (host \in Hosts /\ attempt \in 1..MaxAttempts)'
        BY <1>1, <1>3 DEF ClientInv, TypeOK, Redirected, MaxAttempts
    <2>5. QED
        BY <1>2, <2>1, <2>2, <2>3, <2>4 DEF ClientInv, TypeOK
<1>5. SendsAccounted'
    BY <1>1, <1>2 DEF ClientInv, TypeOK, SendsAccounted, Redirected, Requests, MaxAttempts
<1>6. CurrentConfined'
    <2>1. (host = req.host \/ host \in req.allowedHosts)'
        BY <1>1 DEF ClientInv, CurrentConfined, SafeRedirect, Redirected
    <2>2. (params => redirects = 0)'
        BY <1>1 DEF Redirected
    <2>3. (seenOther => method = "GET" /\ ~body)' /\ (body => req.body)'
        BY <1>1 DEF ClientInv, TypeOK, CurrentConfined, Redirected
    <2>4. QED
        BY <2>1, <2>2, <2>3 DEF CurrentConfined
<1>7. (HostConfinement /\ RedirectStripsRequest)'
    BY <1>2 DEF ClientInv, HostConfinement, RedirectStripsRequest
<1>8. RetriesSpentBeforeFailure'
    BY <1>2 DEF ClientInv, SendsAccounted, RetriesSpentBeforeFailure, Pending,
                TransportErrors, Retryable
<1>9. QED
    BY <1>4, <1>5, <1>6, <1>7, <1>8 DEF ClientInv

\* One step of the loop keeps the invariant.
LEMMA NextClientInv == ClientInv /\ [Next]_vars => ClientInv'
<1> SUFFICES ASSUME ClientInv, [Next]_vars PROVE ClientInv'
    OBVIOUS
<1> USE ClientAssumption
<1>1. CASE UNCHANGED vars
    BY <1>1 DEF ClientInv, TypeOK, SendsAccounted, CurrentConfined, HostConfinement,
           RedirectStripsRequest, RetriesSpentBeforeFailure, vars, Requests
<1>2. CASE Next
    <2> USE <1>2
    <2>1. UNCHANGED <<allowNetwork, req>>
        BY DEF Next
    <2>2. CASE RefuseOffline
        <3>1. pc = "send" /\ Finish("network_disabled", "none")
            BY <2>2 DEF RefuseOffline
        <3>2. sends = 0
            BY <2>2 DEF RefuseOffline, ClientInv, SendsAccounted
        <3>3. QED
            BY <2>1, <3>1, <3>2, FinishKeepsInv DEF Outcomes, TransportErrors, Retryable
    <2>3. CASE Send
        BY <2>1, <2>3, SendKeepsInv
    <2>4. CASE RetryTransport \/ RetryStatus
        BY <2>1, <2>4, RetryKeepsInv DEF RetryTransport, RetryStatus
    <2>5. CASE GiveUpTransport
        <3>1. PICK error \in TransportErrors: Finish(error, "none")
            BY <2>5 DEF GiveUpTransport
        <3>2. pc = "await" /\ attempt = MaxAttempts
            BY <2>5 DEF GiveUpTransport, ClientInv, TypeOK, MaxAttempts
        <3>3. QED
            BY <2>1, <3>1, <3>2, FinishKeepsInv DEF TransportErrors, Outcomes
    <2>6. CASE EscapeUnclassified
        BY <2>1, <2>6, FinishKeepsInv DEF EscapeUnclassified, Outcomes, TransportErrors,
               Retryable
    <2>7. CASE RedirectLimit
        <3>1. PICK status \in Redirects: Finish("redirect_limit", status)
            BY <2>7 DEF RedirectLimit
        <3>2. QED
            BY <2>1, <2>7, <3>1, FinishKeepsInv DEF RedirectLimit, Redirects, SeeOther,
                   Statuses, Outcomes, TransportErrors, Retryable
    <2>8. CASE RejectRedirect
        <3>1. PICK status \in Redirects: Finish("redirect_rejected", status)
            BY <2>8 DEF RejectRedirect
        <3>2. QED
            BY <2>1, <2>8, <3>1, FinishKeepsInv DEF RejectRedirect, Redirects, SeeOther,
                   Statuses, Outcomes, TransportErrors, Retryable
    <2>9. CASE FollowRedirect
        BY <2>1, <2>9, FollowKeepsInv
    <2>10. CASE ReturnResponse
        <3>1. PICK status \in Statuses:
                 (status = Retryable => attempt >= MaxAttempts) /\ Finish("response", status)
            BY <2>10 DEF ReturnResponse
        <3>2. pc = "await" /\ (status = Retryable => attempt = MaxAttempts)
            BY <2>10, <3>1 DEF ReturnResponse, ClientInv, TypeOK, MaxAttempts
        <3>3. QED
            BY <2>1, <3>1, <3>2, FinishKeepsInv DEF Statuses, Outcomes, TransportErrors
    <2>11. CASE Returned
        BY <1>1, <2>11 DEF Returned
    <2>12. QED
        BY <2>2, <2>3, <2>4, <2>5, <2>6, <2>7, <2>8, <2>9, <2>10, <2>11 DEF Next
<1>3. QED
    BY <1>1, <1>2

\* ClientInv holds in every state of every call.
THEOREM ClientInvariant == Spec => []ClientInv
BY InitClientInv, NextClientInv, PTL DEF Spec

\* Type correctness of the request loop (counters within their limits).
THEOREM ClientTypeCorrect == Spec => []TypeOK
<1>1. ClientInv => TypeOK
    BY DEF ClientInv
<1>2. QED
    BY <1>1, ClientInvariant, PTL

\* A call never sends more than its attempts and its redirects allow.
THEOREM ClientSendBudget == Spec => []SendBudget
<1>1. ClientInv => SendBudget
    BY ClientAssumption DEF ClientInv, TypeOK, SendsAccounted, SendBudget, MaxAttempts, Requests
<1>2. QED
    BY <1>1, ClientInvariant, PTL

\* No chain of redirects reaches a host the request did not name or allow.
THEOREM ClientHostConfinement == Spec => []HostConfinement
<1>1. ClientInv => HostConfinement
    BY DEF ClientInv
<1>2. QED
    BY <1>1, ClientInvariant, PTL

\* Parameters stay with the first URL; nothing of a POST survives a 303.
THEOREM ClientRedirectStrips == Spec => []RedirectStripsRequest
<1>1. ClientInv => RedirectStripsRequest
    BY DEF ClientInv
<1>2. QED
    BY <1>1, ClientInvariant, PTL

\* A transient failure is reported only after the last attempt was made.
THEOREM ClientRetriesSpent == Spec => []RetriesSpentBeforeFailure
<1>1. ClientInv => RetriesSpentBeforeFailure
    BY DEF ClientInv
<1>2. QED
    BY <1>1, ClientInvariant, PTL

\* What the steps left come to at each point of the loop, before and after.
LEMMA StepsLeftValues ==
    ASSUME ClientInv, ClientInv', UNCHANGED req
    PROVE  /\ attempt \in 1..MaxAttempts /\ attempt' \in 1..MaxAttempts
           /\ redirects \in 0..req.maxRedirects /\ redirects' \in 0..req.maxRedirects
           /\ req.maxRedirects \in Nat /\ MaxAttempts \in Nat
           /\ pc = "send" =>
                StepsLeft = 2 * ((MaxAttempts - attempt) + (req.maxRedirects - redirects)) + 2
           /\ pc = "await" =>
                StepsLeft = 2 * ((MaxAttempts - attempt) + (req.maxRedirects - redirects)) + 1
           /\ pc' = "send" =>
                StepsLeft' = 2 * ((MaxAttempts - attempt') + (req.maxRedirects - redirects')) + 2
           /\ pc' = "await" =>
                StepsLeft' = 2 * ((MaxAttempts - attempt') + (req.maxRedirects - redirects')) + 1
           /\ pc' = "done" => StepsLeft' = 0
<1> USE ClientAssumption
<1>1. req \in Requests /\ req' = req /\ MaxAttempts \in Nat
    BY DEF ClientInv, TypeOK, MaxAttempts
<1>2. req.maxRedirects \in Nat
    BY <1>1 DEF Requests
<1>3. /\ attempt \in 1..MaxAttempts /\ attempt' \in 1..MaxAttempts
      /\ redirects \in 0..req.maxRedirects /\ redirects' \in 0..req.maxRedirects
    BY <1>1 DEF ClientInv, TypeOK
<1>4. QED
    BY <1>1, <1>2, <1>3 DEF StepsLeft

\* A turn of the loop that is not the last keeps both counters within their
\* limits and takes one of the two forward, or sends.
LEMMA TurnUsesUp ==
    ASSUME ClientInv, ClientInv', UNCHANGED req,
           \/ pc \in {"send", "await"} /\ pc' = "done"
           \/ pc = "send" /\ pc' = "await" /\ attempt' = attempt /\ redirects' = redirects
           \/ pc = "await" /\ pc' = "send" /\ attempt' = attempt + 1 /\ redirects' = redirects
           \/ pc = "await" /\ pc' = "send" /\ attempt' = attempt /\ redirects' = redirects + 1
    PROVE  StepsLeft' \in 0..(StepsLeft - 1)
<1> DEFINE before == StepsLeft
           after == StepsLeft'
<1>1. /\ attempt \in 1..MaxAttempts /\ attempt' \in 1..MaxAttempts
      /\ redirects \in 0..req.maxRedirects /\ redirects' \in 0..req.maxRedirects
      /\ req.maxRedirects \in Nat /\ MaxAttempts \in Nat
      /\ pc = "send" =>
           before = 2 * ((MaxAttempts - attempt) + (req.maxRedirects - redirects)) + 2
      /\ pc = "await" =>
           before = 2 * ((MaxAttempts - attempt) + (req.maxRedirects - redirects)) + 1
      /\ pc' = "send" =>
           after = 2 * ((MaxAttempts - attempt') + (req.maxRedirects - redirects')) + 2
      /\ pc' = "await" =>
           after = 2 * ((MaxAttempts - attempt') + (req.maxRedirects - redirects')) + 1
      /\ pc' = "done" => after = 0
    BY StepsLeftValues
<1> HIDE DEF before, after
<1>2. after \in 0..(before - 1)
    BY <1>1
<1>3. QED
    BY <1>2 DEF before, after

\* For any retry setting and any redirect limit: whatever mix of redirects,
\* transport failures and retryable statuses the peer answers with, the call
\* returns or raises within twice as many steps as it may send messages.
THEOREM ClientCallAdvances == Spec => CallAdvances
<1>1. ClientInv /\ ClientInv' /\ [Next]_vars => [StepsLeft' \in 0..(StepsLeft - 1)]_vars
    <2> SUFFICES ASSUME ClientInv, ClientInv', Next, ~UNCHANGED vars
                 PROVE  StepsLeft' \in 0..(StepsLeft - 1)
        BY DEF vars
    <2>1. UNCHANGED req
        BY DEF Next
    <2>2. \/ pc \in {"send", "await"} /\ pc' = "done"
          \/ pc = "send" /\ pc' = "await" /\ attempt' = attempt /\ redirects' = redirects
          \/ pc = "await" /\ pc' = "send" /\ attempt' = attempt + 1 /\ redirects' = redirects
          \/ pc = "await" /\ pc' = "send" /\ attempt' = attempt /\ redirects' = redirects + 1
        BY DEF Next, RefuseOffline, Send, RetryTransport, GiveUpTransport, EscapeUnclassified,
               RedirectLimit, RejectRedirect, FollowRedirect, RetryStatus, ReturnResponse,
               Returned, Finish, Retry, Redirected
    <2>3. QED
        BY <2>1, <2>2, TurnUsesUp
<1>2. QED
    BY <1>1, ClientInvariant, PTL DEF Spec, CallAdvances
=============================================================================
