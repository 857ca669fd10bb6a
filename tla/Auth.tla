-------------------------------- MODULE Auth --------------------------------
(***************************************************************************)
(* Identities derived from a shared secret, and the TLS configurations     *)
(* made of them (internal/auth/derive.go and tls.go), symbolically: a      *)
(* derived key is the secret and the label it was derived with, so equal   *)
(* keys mean equal secrets and labels (HKDF-SHA-256 and Ed25519 are taken  *)
(* to be perfect), and a certificate is its key, its issuer, what it may   *)
(* be used for and the names it is valid for.                              *)
(***************************************************************************)
EXTENDS Integers, Sequences, SequencesExt

RoleForward == "forward"
RoleExit    == "exit"

derivePrivateKey(secret, label) == <<secret, label>>

(* Public keys stand for their pairs. *)
RolePublicKey(secret, role) == derivePrivateKey(secret, role)

caCertificate(secret) == derivePrivateKey(secret, "ca")

(* The server's certificate is good for every name below the two bases. *)
roleCertificate(secret, role) ==
    [key    |-> RolePublicKey(secret, role),
     issuer |-> caCertificate(secret),
     usage  |-> IF role = RoleExit THEN "server" ELSE "client",
     bases  |-> IF role = RoleExit THEN {"mule-exit", "mule-probe"} ELSE {}]

(* The names <id>.mule-exit and <id>.mule-probe. *)
ExitServerNameForClient(id)  == [id |-> id, base |-> "mule-exit"]
ProbeServerNameForClient(id) == [id |-> id, base |-> "mule-probe"]

-----------------------------------------------------------------------------
(* The client: an agent or a probe command *)

TLSConfigWithServerName(secret, role, serverName) ==
    [cert         |-> roleCertificate(secret, role),
     serverName   |-> serverName,
     rootCAs      |-> {caCertificate(secret)},
     expectedPeer |-> RolePublicKey(secret, IF role = RoleExit THEN RoleForward
                                                               ELSE RoleExit)]

-----------------------------------------------------------------------------
(* The server, given the sequence of its clients [id, secret] *)

ClientKey(client) == RolePublicKey(client.secret, RoleForward)

(* Mutant of IdentitiesDistinct: two agents may share a secret. *)
IdentitiesUnchecked(clients) == clients # <<>>

(* MultiClientTLSConfig returns no error. *)
IdentitiesDistinct(clients) ==
    /\ clients # <<>>
    /\ \A i \in DOMAIN clients : clients[i].id # ""
    /\ \A i, j \in DOMAIN clients :
         ClientKey(clients[i]) = ClientKey(clients[j]) => i = j

(* The entry made last for a key of either map. *)
LastOf(clients, Test(_)) == clients[SelectLastInSeq(clients, Test)]

MultiClientTLSConfig(clients) ==
    [certBySNI |->
       [name \in { ExitServerNameForClient(c.id)  : c \in ToSet(clients) }
            \cup { ProbeServerNameForClient(c.id) : c \in ToSet(clients) } |->
          roleCertificate(LastOf(clients, LAMBDA c : c.id = name.id).secret,
                          RoleExit)],
     clientByPublicKey |->
       [key \in { ClientKey(c) : c \in ToSet(clients) } |->
          LastOf(clients, LAMBDA c : ClientKey(c) = key).id],
     clientCAs |-> { caCertificate(c.secret) : c \in ToSet(clients) }]

-----------------------------------------------------------------------------
(* The TLS 1.3 handshake with certificates on both sides *)

(* The client knows its peer: chain, name, usage, and VerifyConnection. *)
ClientVerifies(cfg, cert) ==
    /\ cert.issuer \in cfg.rootCAs
    /\ cert.usage = "server" /\ cfg.serverName.base \in cert.bases
    /\ cert.key = cfg.expectedPeer

(* So does the server: chain, usage, and ClientIDForTLSState. *)
ServerVerifies(authn, cert) ==
    /\ cert.issuer \in authn.clientCAs
    /\ cert.usage = "client"
    /\ cert.key \in DOMAIN authn.clientByPublicKey

(* A client completes the handshake with the server. *)
Admits(authn, cfg) ==
    /\ cfg.serverName \in DOMAIN authn.certBySNI
    /\ ClientVerifies(cfg, authn.certBySNI[cfg.serverName])
    /\ ServerVerifies(authn, cfg.cert)

(* The identity the server then gives to the connection. *)
ClientIDForTLSState(authn, cfg) == authn.clientByPublicKey[cfg.cert.key]
=============================================================================
