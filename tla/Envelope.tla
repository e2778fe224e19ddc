------------------------------ MODULE Envelope ------------------------------
(***************************************************************************)
(* The sealed messages of crates/lluma-crypto, symbolically: what a        *)
(* ciphertext carries, and what must match for it to open.  Randomness is  *)
(* fresh, so a key, a session or a request context is a name nobody else   *)
(* holds; a message that was altered does not open and is not modelled.    *)
(***************************************************************************)

\* e2e_seal: the prompt and the session key to answer to, for one host key,
\* bound to the spend id.
E2eSeal(host_pk, aad, prompt, reply_to) ==
    [pk |-> host_pk, aad |-> aad, prompt |-> prompt, reply_to |-> reply_to]

\* e2e_open
E2eOpens(host_sk, aad, sealed) == sealed.pk = host_sk /\ sealed.aad = aad

\* response_setup_host and response_seal_chunk: the answer, for one session key,
\* with its finality flag.
ResponseSeal(reply_to, answer, last) == [to |-> reply_to, answer |-> answer, last |-> last]

\* response_setup_client and response_open_chunk
ResponseOpens(session, resp) == resp.to = session

\* ohttp_encapsulate: a request for one gateway key, and the context that opens
\* its answer.
OhttpEncapsulate(key_config, ctx, inner) == [kc |-> key_config, ctx |-> ctx, inner |-> inner]

\* ohttp_decapsulate
OhttpDecapsulates(secret, capsule) == capsule.kc = secret

\* ohttp_seal_chunk: the answer to one capsule.
OhttpSealChunk(ctx, chunk, last) == [ctx |-> ctx, chunk |-> chunk, last |-> last]

\* Mutant of OhttpOpens: any answer is taken.
OhttpOpensAny(ctx, sealed) == TRUE

\* ohttp_open_chunk
OhttpOpens(ctx, sealed) == sealed.ctx = ctx

\* snapshot_sign, bootstrap_sign and their verification: a document of one domain,
\* under the registry's key.
Signed(domain, body) == [domain |-> domain, body |-> body]
SignatureOk(domain, doc) == doc.domain = domain
=============================================================================
