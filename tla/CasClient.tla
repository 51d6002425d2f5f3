------------------------------- MODULE CasClient -------------------------------
(***************************************************************************)
(* transport/cas.py CasClient: one call of get_device_credentials(), from  *)
(* the connect to the parsed answer.  A TLS connect verifies the server's  *)
(* certificate; if that fails because it has expired (and the client was   *)
(* not told to insist), the client connects a second time without the      *)
(* verification and examines the certificate itself.  The server may show  *)
(* another certificate to the second connection than to the first, may     *)
(* fall silent or hang up at any await, and the caller may cancel.         *)
(*                                                                         *)
(* DNS names are sequences of labels, normalised as _normalize_dns_name    *)
(* leaves them.                                                            *)
(***************************************************************************)
EXTENDS Naturals, Sequences

CONSTANTS
    Host,     \* the host asked for: [address : BOOLEAN, labels : a sequence]
    Entries   \* what a certificate may name, records of the same kind

Names == [address : BOOLEAN, labels : Seq(STRING) \ {<<>>}]

ASSUME NameAssumption == Host \in Names /\ Entries \subseteq Names

VARIABLES
    config,   \* the constructor's use_tls and verify_certificate
    pc,       \* the await the call is suspended at
    conn,     \* [Connections -> Conditions]
    shown,    \* [Connections -> the certificate the server has shown on it]
    carrier,  \* the connection the request was written to
    reply,    \* what the answer's body holds
    raised,   \* the exception on its way out
    outcome   \* how the call ended

vars == <<config, pc, conn, shown, carrier, reply, raised, outcome>>

\* The verified (or plain) connection, and that of the fallback.
Connections == {"first", "second"}

\* abandoned: open, and nothing refers to its writer any more.
Conditions == {"none", "open", "closing", "closed", "abandoned"}

Awaits == {"connect", "fallback", "drain", "header", "rest", "closing", "ended"}

Certificate == [trusted : BOOLEAN, expired : BOOLEAN, san : SUBSET Entries]

\* The value of shown where no certificate was: it is none and names nothing.
NoCertificate == [trusted |-> FALSE, expired |-> FALSE, san |-> {}]

\* What the body of an answer can be to _parse_credentials: malformed XML or fields that
\* are missing; an XML declaration with an encoding that Python has not, or that expat
\* cannot use; an encrypt type that is no number.
Bodies == {"credentials", "malformed", "unknownEncoding", "multiByteEncoding", "badEncryptType"}

\* OSError stands for ConnectionError and ssl.SSLError too, X509Error for those exceptions
\* of cryptography.x509 that derive from Exception alone.
Exceptions == {"OSError", "TimeoutError", "IncompleteRead", "ProtocolError", "ValueError",
               "LookupError", "X509Error", "Cancelled"}

TypeOK ==
    /\ config \in [useTls : BOOLEAN, verify : BOOLEAN]
    /\ pc \in Awaits
    /\ conn \in [Connections -> Conditions]
    /\ shown \in [Connections -> Certificate]
    /\ carrier \in Connections \cup {"none"}
    /\ reply \in Bodies \cup {"none"}
    /\ raised \in Exceptions \cup {"none"}
    /\ outcome \in Exceptions \cup {"none", "credentials"}

\* get_device_credentials() is called and waits for its connect.
Init ==
    /\ config \in [useTls : BOOLEAN, verify : BOOLEAN]
    /\ pc = "connect"
    /\ conn = [c \in Connections |-> "none"]
    /\ shown = [c \in Connections |-> NoCertificate]
    /\ carrier = "none"
    /\ reply = "none"
    /\ raised = "none"
    /\ outcome = "none"

-----------------------------------------------------------------------------
(* Certificates.                                                           *)

\* The labels that hold an asterisk.
Starred == {"*", "c*"}

Stars(pattern) == {i \in DOMAIN pattern : pattern[i] \in Starred}

DnsNameMatches(pattern, host) ==
    IF Stars(pattern) = {}
    THEN pattern = host
    ELSE /\ Stars(pattern) = {1} /\ pattern[1] = "*" /\ Len(pattern) > 1
         /\ Len(host) = Len(pattern)
         /\ Tail(host) = Tail(pattern)

\* Addresses are compared with addresses, names with names.
CertificateMatchesHost(cert) ==
    \E entry \in cert.san :
        /\ entry.address = Host.address
        /\ IF Host.address THEN entry.labels = Host.labels
                           ELSE DnsNameMatches(entry.labels, Host.labels)

\* Faulty ToleratesExpired: whose certificate it is does not matter.
ToleratesAnyExpired(cert) == cert.expired

\* _verify_expired_certificate_hostname(): a certificate is there, it has expired, and
\* it is the host's.
ToleratesExpired(cert) == cert.expired /\ CertificateMatchesHost(cert)

\* What x509 raises for a certificate it cannot read: a ValueError where the encoding is
\* malformed, one of its own for an unknown version, a repeated extension or a kind of
\* name it does not support.
ReadErrors == {"ValueError", "X509Error"}

\* The except clauses of _verify_expired_certificate_hostname().
Examined(exception) == IF exception = "X509Error" THEN exception ELSE "ProtocolError"

\* What a certificate's name has to be to stand for the host: the same labels, but for a
\* first one that may be an asterisk.
StandsForHost(entry) ==
    /\ entry.address = Host.address
    /\ Len(entry.labels) = Len(Host.labels)
    /\ \A i \in DOMAIN Host.labels :
          \/ entry.labels[i] = Host.labels[i]
          \/ i = 1 /\ entry.labels[1] = "*" /\ ~ Host.address /\ Len(Host.labels) > 1

\* What the verifying handshake may object to (ssl, external).
Flaws(cert) ==
    {flaw \in {"expired", "other"} :
        IF flaw = "expired"
        THEN cert.expired
        ELSE ~ cert.trusted \/ ~ \E entry \in cert.san : StandsForHost(entry)}

-----------------------------------------------------------------------------
(* Ends.                                                                   *)

\* The call ends before there is anything to close.
EndsWith(exception) ==
    /\ pc' = "ended"
    /\ outcome' = exception
    /\ raised' = exception
    /\ UNCHANGED reply

\* The finally clause: writer.close(), then wait_closed().
BeginsClosing(exception) ==
    /\ pc' = "closing"
    /\ raised' = exception
    /\ conn' = [conn EXCEPT ![carrier] = "closing"]
    /\ UNCHANGED outcome

\* Faulty Parsed: what the answer holds is passed on.
ParsedVerbatim == reply

\* _parse_credentials(): ET.ParseError is the only exception that is turned into a
\* ProtocolError.  ET.fromstring() raises others for an encoding, int() one for an
\* encrypt type.
Parsed ==
    CASE reply = "credentials"                             -> "credentials"
      [] reply = "unknownEncoding"                         -> "LookupError"
      [] reply \in {"multiByteEncoding", "badEncryptType"} -> "ValueError"
      [] OTHER                                             -> "ProtocolError"

\* Faulty Translated: only timeouts are caught.
TranslatedTimeouts(exception) ==
    IF exception = "TimeoutError" THEN "ProtocolError" ELSE exception

\* The two except clauses of _exchange().
Translated(exception) ==
    IF exception \in {"TimeoutError", "OSError", "IncompleteRead"}
    THEN "ProtocolError" ELSE exception

-----------------------------------------------------------------------------
(* _connect().                                                             *)

\* The connection is there and the request is written to it at once.
Request(c) ==
    /\ conn' = [conn EXCEPT ![c] = "open"]
    /\ carrier' = c
    /\ pc' = "drain"
    /\ UNCHANGED <<reply, raised, outcome>>

PlainConnected ==
    /\ pc = "connect" /\ ~ config.useTls
    /\ Request("first")
    /\ UNCHANGED <<config, shown>>

VerifiedConnected ==
    /\ pc = "connect" /\ config.useTls
    /\ \E cert \in Certificate :
          /\ Flaws(cert) = {}
          /\ shown' = [shown EXCEPT !["first"] = cert]
    /\ Request("first")
    /\ UNCHANGED config

\* The handshake names one of the flaws; asyncio has closed the socket.
CertificateRefused ==
    /\ pc = "connect" /\ config.useTls
    /\ \E cert \in Certificate : \E flaw \in Flaws(cert) :
          /\ shown' = [shown EXCEPT !["first"] = cert]
          /\ IF config.verify \/ flaw # "expired"
             THEN EndsWith("ProtocolError")
             ELSE pc' = "fallback" /\ UNCHANGED <<reply, raised, outcome>>
    /\ UNCHANGED <<config, conn, carrier>>

UnverifiedConnected ==
    /\ pc = "fallback"
    /\ \E cert \in Certificate :
          /\ ToleratesExpired(cert)
          /\ shown' = [shown EXCEPT !["second"] = cert]
    /\ Request("second")
    /\ UNCHANGED config

\* The second connection is open when the examination of its certificate (if any) fails,
\* and its writer is not closed.
Abandons(exception) ==
    /\ conn' = [conn EXCEPT !["second"] = "abandoned"]
    /\ EndsWith(exception)
    /\ UNCHANGED <<config, carrier>>

UnverifiedRefused ==
    /\ pc = "fallback"
    /\ \E cert \in Certificate \cup {NoCertificate} :
          /\ ~ ToleratesExpired(cert)
          /\ shown' = [shown EXCEPT !["second"] = cert]
    /\ Abandons("ProtocolError")

\* A certificate that x509 cannot read is none to the code.
UnverifiedUnread ==
    /\ pc = "fallback"
    /\ \E exception \in ReadErrors : Abandons(Examined(exception))
    /\ UNCHANGED shown

-----------------------------------------------------------------------------
(* _exchange() and _recv_cas_frame().                                      *)

Drained ==
    /\ pc = "drain"
    /\ pc' = "header"
    /\ UNCHANGED <<config, conn, shown, carrier, reply, raised, outcome>>

\* The header's magic is checked; neither its command nor its sequence is.
HeaderArrives ==
    /\ pc = "header"
    /\ pc' = "rest"
    /\ UNCHANGED <<config, conn, shown, carrier, reply, raised, outcome>>

\* Faulty HeaderRefused: it is raised past the finally clause.
HeaderRefusedAtOnce ==
    /\ pc = "header"
    /\ EndsWith("ProtocolError")
    /\ UNCHANGED <<config, conn, shown, carrier>>

HeaderRefused ==
    /\ pc = "header"
    /\ BeginsClosing("ProtocolError")
    /\ UNCHANGED <<config, shown, carrier, reply>>

RestArrives ==
    /\ pc = "rest"
    /\ reply' \in Bodies
    /\ BeginsClosing("none")
    /\ UNCHANGED <<config, shown, carrier>>

\* An exception at an await of _connect(), or at one under the finally clause.
FailsWith(exception) ==
    IF pc \in {"connect", "fallback"}
    THEN EndsWith(Translated(exception)) /\ UNCHANGED conn
    ELSE BeginsClosing(Translated(exception)) /\ UNCHANGED reply

\* Every await but that of wait_closed() has a timeout; the two reads share one.
TimedAwaits == {"connect", "fallback", "drain", "header", "rest"}

\* Faulty TimesOut: the answer is awaited without a limit.
TimesOutBeforeReading ==
    /\ pc \in {"connect", "fallback", "drain"}
    /\ FailsWith("TimeoutError")
    /\ UNCHANGED <<config, shown, carrier>>

TimesOut ==
    /\ pc \in TimedAwaits
    /\ FailsWith("TimeoutError")
    /\ UNCHANGED <<config, shown, carrier>>

Breaks ==
    /\ pc \in TimedAwaits
    /\ \/ FailsWith("OSError")
       \/ pc \in {"header", "rest"} /\ FailsWith("IncompleteRead")
    /\ UNCHANGED <<config, shown, carrier>>

\* A cancelled connect closes its own socket; a cancelled wait_closed() replaces
\* whatever was to be returned or raised.
Cancel ==
    /\ pc # "ended"
    /\ IF pc = "closing"
       THEN EndsWith("Cancelled") /\ UNCHANGED conn
       ELSE FailsWith("Cancelled")
    /\ UNCHANGED <<config, shown, carrier>>

\* The event loop ends the TLS shutdown, or gives it up, and closes the socket.
SocketCloses ==
    /\ \E c \in Connections :
          /\ conn[c] = "closing"
          /\ conn' = [conn EXCEPT ![c] = "closed"]
    /\ UNCHANGED <<config, pc, shown, carrier, reply, raised, outcome>>

\* wait_closed() returns (an OSError of it is suppressed) and the answer is parsed.
Closed ==
    /\ pc = "closing"
    /\ conn[carrier] = "closed"
    /\ pc' = "ended"
    /\ outcome' = IF raised = "none" THEN Parsed ELSE raised
    /\ UNCHANGED <<config, conn, shown, carrier, reply, raised>>

\* A connection nobody closes stays until the server ends it, if ever.
ServerHangsUp ==
    /\ conn["second"] = "abandoned"
    /\ conn' = [conn EXCEPT !["second"] = "closed"]
    /\ UNCHANGED <<config, pc, shown, carrier, reply, raised, outcome>>

Next ==
    \/ PlainConnected \/ VerifiedConnected \/ CertificateRefused
    \/ UnverifiedConnected \/ UnverifiedRefused \/ UnverifiedUnread
    \/ Drained \/ HeaderArrives \/ HeaderRefused \/ RestArrives
    \/ TimesOut \/ Breaks \/ Cancel \/ SocketCloses \/ Closed \/ ServerHangsUp

Spec == Init /\ [][Next]_vars

\* The timers fire and the loop runs; nothing is asked of the server.
FairSpec == Spec /\ WF_vars(TimesOut) /\ WF_vars(SocketCloses) /\ WF_vars(Closed)

-----------------------------------------------------------------------------
(* Properties.                                                             *)

\* cas.py, (b) of the comment above _tls_context: the session goes only to a connection on
\* which a certificate that names the host was shown, also if the server shows another one
\* to the second connection; and to that only if the client does not insist, the first
\* was refused for its age, and the second has expired too.  On the first connection the
\* certificate is valid; on the second nothing is said of its issuer.
CarrierNamesHost ==
    carrier # "none" /\ config.useTls =>
        /\ \E entry \in shown[carrier].san : StandsForHost(entry)
        /\ carrier = "first" => shown["first"].trusted /\ ~ shown["first"].expired
        /\ carrier = "second" =>
              ~ config.verify /\ shown["first"].expired /\ shown["second"].expired

\* (a) of the same comment: a certificate is only tolerated if "it really is expired (not
\* some other verification failure)".  The code compares the age and the names of the
\* second connection's certificate and no more, so this is false even if the first one
\* had no other flaw.
ToleratedForAgeAlone ==
    carrier = "second" /\ Flaws(shown["first"]) = {"expired"} =>
        Flaws(shown["second"]) = {"expired"}

\* No call holds two connections, and what it leaves behind when it ends is a connection
\* that is being closed, with one exception: a second connection that was refused.
OnlyTheRefusedIsLeft ==
    /\ \A c \in Connections : conn[c] = "open" => carrier = c /\ pc # "ended"
    /\ conn["second"] = "abandoned" =>
          pc = "ended" /\ outcome \in {"ProtocolError", "X509Error"} /\ carrier = "none"

\* cas.py, _exchange() and _connect(): whatever the network and the server do to a call at
\* any await reaches the caller as a ProtocolError, unless one of three parsers raises:
\* ET.fromstring() or int() for the answer, after its connection was closed, or x509 for
\* the second certificate, before anything was written.
OnlyParsersEscape ==
    pc = "ended" =>
        \/ outcome \in {"ProtocolError", "Cancelled"}
        \/ outcome = "credentials" /\ reply = "credentials" /\ conn[carrier] = "closed"
        \/ outcome = "LookupError" /\ reply = "unknownEncoding" /\ conn[carrier] = "closed"
        \/ /\ outcome = "ValueError" /\ reply \in {"multiByteEncoding", "badEncryptType"}
           /\ conn[carrier] = "closed"
        \/ outcome = "X509Error" /\ carrier = "none"

\* Every call ends, and the connection it used is closed, however silent the server is.
CallSettles ==
    /\ <>(pc = "ended")
    /\ \A c \in Connections : [](conn[c] = "open" => <>(conn[c] = "closed"))
=============================================================================
