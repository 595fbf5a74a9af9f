--------------------------- MODULE RequestHeaders ---------------------------
(***************************************************************************)
(* Who decides the headers of a request (_requests.py): the SDK, which     *)
(* builds it; httpx, which adds the client's own headers and then runs     *)
(* the client's Auth flow and request hooks over it; and the SDK again,    *)
(* whose hook stands in the same list as the caller's.                     *)
(*                                                                         *)
(* Headers are a function from the names that matter to who wrote the      *)
(* value: "sdk", "recorder", "caller" (this call's argument), "ambient"    *)
(* (something the httpx client was given).  A client is [defaults, auth,   *)
(* hooks]; a request is [headers, marked, expected, free], where marked    *)
(* and free are the two markers in its extensions.                         *)
(***************************************************************************)
EXTENDS Sequences, SequencesExt

Names == {"x-tr-client", "authorization", "cookie", "idempotency-key", "workspace"}

ReservedHeaders == {"x-tr-client"}

CredentialHeaders == Names \ ReservedHeaders

Absent == "absent"

NoHeaders == [n \in Names |-> Absent]

Ambient == [n \in Names |-> "ambient"]

-----------------------------------------------------------------------------
(* Headers.update: what is given overrides, name by name. *)
Update(h, g) == [n \in Names |-> IF g[n] # Absent THEN g[n] ELSE h[n]]

Put(h, name, value) == IF value = Absent THEN h ELSE [h EXCEPT ![name] = value]

Without(h, names) == [n \in Names |-> IF n \in names THEN Absent ELSE h[n]]

StripReserved(h) == Without(h, ReservedHeaders)

StripCredentials(h) == Without(h, CredentialHeaders)

(* What request() and the stream builders make: the constructor's headers, *)
(* the call's over them, and the named arguments over both.                *)
AuthorizedHeaders(defaults, given, args) ==
    Put(Put(Put(Update(defaults, given), "idempotency-key", args.key),
            "workspace", args.workspace),
        "authorization", args.apiKey)

(* One attempt of the transport engine: the reservation, and the marker    *)
(* that lets the hook repeat it.                                           *)
ApplyReserved(h, value) ==
    [headers |-> Put(StripReserved(h), "x-tr-client", value),
     marked |-> TRUE, expected |-> value, free |-> FALSE]

(* Client.build_request merges the client's defaults below the request's.  *)
Merged(client, r) == [r EXCEPT !.headers = Update(client.defaults, @)]

(* A request without credentials is scrubbed after that merge. *)
CredentialFree(client, h) ==
    [headers |-> StripReserved(StripCredentials(Update(client.defaults, h))),
     marked |-> TRUE, expected |-> Absent, free |-> TRUE]

(* A request the SDK did not mark: the caller's own traffic, and userinfo. *)
Unmarked(client, h) ==
    [headers |-> Update(client.defaults, h),
     marked |-> FALSE, expected |-> Absent, free |-> FALSE]

-----------------------------------------------------------------------------
(* Mutant: the hook re-asserts the reserved header only. *)
EnforceReservedOnly(r) ==
    [r EXCEPT !.headers = IF r.marked
                          THEN Put(StripReserved(@), "x-tr-client", r.expected)
                          ELSE @]

(* The SDK's request hook. *)
Enforce(r) ==
    LET own == IF r.marked
               THEN Put(StripReserved(r.headers), "x-tr-client", r.expected)
               ELSE r.headers
    IN  [r EXCEPT !.headers = IF r.free THEN StripCredentials(own) ELSE own]

(* Any other hook, and an Auth flow, may write anything. *)
AnyWriter(r) == [r EXCEPT !.headers = Ambient]

RunHook(r, hook) == IF hook = "sdk" THEN Enforce(r) ELSE AnyWriter(r)

(* What reaches the transport: Auth first, then the hooks in their order.  *)
(* A credential-free request is sent with auth=None.                       *)
OnTheWire(client, r) ==
    FoldLeft(RunHook,
             IF client.auth /\ ~r.free THEN AnyWriter(r) ELSE r,
             client.hooks).headers

(* _install_reserved_header_hook, on the list it finds. *)
Install(hooks) == IF "sdk" \in ToSet(hooks) THEN hooks ELSE Append(hooks, "sdk")

(* No hook of the caller's runs after the SDK's. *)
Terminal(hooks) == hooks # <<>> /\ Last(hooks) = "sdk"
=============================================================================
