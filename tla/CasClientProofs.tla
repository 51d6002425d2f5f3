--------------------------- MODULE CasClientProofs ----------------------------
(***************************************************************************)
(* The safety of CasClient for any host and any names a certificate may    *)
(* hold.                                                                   *)
(***************************************************************************)
EXTENDS CasClient, TLAPS

USE NameAssumption

-----------------------------------------------------------------------------
(* Names.                                                                  *)

\* The code's comparison of names, by the number of dots and a common ending, accepts
\* nothing that does not stand for the host.
LEMMA MatchingIsSound ==
    ASSUME NEW entry \in Entries, entry.address = Host.address,
           IF Host.address THEN entry.labels = Host.labels
                           ELSE DnsNameMatches(entry.labels, Host.labels)
    PROVE  StandsForHost(entry)
<1> DEFINE p == entry.labels
           h == Host.labels
<1>1. p \in Seq(STRING) /\ h \in Seq(STRING) /\ p # <<>> /\ h # <<>> /\ Host.address \in BOOLEAN
  BY DEF Names
<1>2. CASE p = h
  BY <1>1, <1>2 DEF StandsForHost
<1>3. CASE p # h
  <2>1. ~ Host.address /\ p[1] = "*" /\ Len(p) > 1 /\ Len(h) = Len(p) /\ Tail(h) = Tail(p)
    BY <1>1, <1>3 DEF DnsNameMatches
  <2>2. ASSUME NEW i \in DOMAIN h, i # 1 PROVE p[i] = h[i]
    <3>1. i \in 2..Len(h) /\ i - 1 \in 1..(Len(h) - 1)
      BY <1>1, <2>2
    <3>2. Tail(h)[i - 1] = h[i] /\ Tail(p)[i - 1] = p[i]
      BY <1>1, <2>1, <3>1
    <3> QED
      BY <2>1, <3>2
  <2> QED
    BY <1>1, <2>1, <2>2 DEF StandsForHost
<1> QED
  BY <1>2, <1>3

\* So a certificate the fallback tolerates is an expired one that names this host.
LEMMA ToleratedIsHosts ==
    ASSUME NEW cert \in Certificate, ToleratesExpired(cert)
    PROVE  cert.expired /\ \E entry \in cert.san : StandsForHost(entry)
BY MatchingIsSound DEF ToleratesExpired, CertificateMatchesHost, Certificate

-----------------------------------------------------------------------------
(* The inductive invariant.                                                *)

\* Which connection there is, and in which condition, follows from the await.
Held ==
    /\ conn["first"] # "abandoned"
    /\ pc \in {"connect", "fallback"} =>
          carrier = "none" /\ outcome = "none" /\ \A c \in Connections : conn[c] = "none"
    /\ pc \in {"drain", "header", "rest"} =>
          /\ carrier # "none"
          /\ \A c \in Connections : conn[c] = IF c = carrier THEN "open" ELSE "none"
    /\ pc = "closing" =>
          /\ carrier # "none"
          /\ \A c \in Connections : IF c = carrier THEN conn[c] \in {"closing", "closed"}
                                                   ELSE conn[c] = "none"
    /\ pc = "ended" => \A c \in Connections : conn[c] # "open"

\* The fallback is only begun after an expired certificate, by a client that allows it.
Fallback ==
    pc = "fallback" => config.useTls /\ ~ config.verify /\ shown["first"].expired

\* No exception but these is on its way out while the connection is closed.
Handled ==
    /\ pc = "closing" => raised \in {"none", "ProtocolError", "Cancelled"}
    /\ pc = "closing" /\ raised = "none" => reply \in Bodies

IInv ==
    /\ TypeOK /\ Held /\ Fallback /\ Handled
    /\ CarrierNamesHost /\ OnlyTheRefusedIsLeft /\ OnlyParsersEscape

LEMMA InitInvariant == Init => IInv
BY DEF Init, IInv, TypeOK, Held, Fallback, Handled, CarrierNamesHost,
       OnlyTheRefusedIsLeft, OnlyParsersEscape, Connections, Conditions, Awaits,
       Certificate, NoCertificate

-----------------------------------------------------------------------------
(* The steps.                                                              *)

\* The parts of the invariant that say what may be left and how the call ends.
Ends == OnlyTheRefusedIsLeft /\ OnlyParsersEscape

\* An exception at a timed await keeps the invariant, before there is a connection and
\* while there is one.
LEMMA FailureKeeps ==
    ASSUME IInv, pc \in TimedAwaits, NEW e \in {"OSError", "TimeoutError", "IncompleteRead",
           "Cancelled"}, FailsWith(e), UNCHANGED <<config, shown, carrier>>
    PROVE  IInv'
<1>1. Translated(e) \in {"ProtocolError", "Cancelled"}
  BY DEF Translated
<1>2. CASE pc \in {"connect", "fallback"}
  <2>1. TypeOK'
    BY <1>1, <1>2 DEF IInv, TypeOK, FailsWith, EndsWith, Awaits, Exceptions
  <2>2. (Held /\ Fallback /\ Handled /\ CarrierNamesHost)'
    BY <1>2 DEF IInv, Held, Fallback, Handled, CarrierNamesHost, FailsWith, EndsWith,
               Connections
  <2>3. Ends'
    BY <1>1, <1>2 DEF IInv, Held, Ends, OnlyTheRefusedIsLeft, OnlyParsersEscape,
                      FailsWith, EndsWith, Connections
  <2> QED
    BY <2>1, <2>2, <2>3 DEF IInv, Ends
<1>3. CASE pc \in {"drain", "header", "rest"}
  <2>1. carrier \in Connections /\ pc' = "closing" /\ raised' = Translated(e)
        /\ conn' = [conn EXCEPT ![carrier] = "closing"] /\ UNCHANGED <<outcome, reply>>
    BY <1>3 DEF IInv, TypeOK, Held, FailsWith, BeginsClosing
  <2>2. TypeOK'
    BY <1>1, <2>1 DEF IInv, TypeOK, Awaits, Exceptions, Conditions
  <2>3. (Held /\ Fallback /\ Handled /\ CarrierNamesHost)'
    BY <1>1, <1>3, <2>1 DEF IInv, TypeOK, Held, Fallback, Handled, CarrierNamesHost,
                           Connections
  <2>4. Ends'
    BY <1>3, <2>1 DEF IInv, TypeOK, Held, Ends, OnlyTheRefusedIsLeft,
                      OnlyParsersEscape, Connections
  <2> QED
    BY <2>2, <2>3, <2>4 DEF IInv, Ends
<1> QED
  BY <1>2, <1>3 DEF TimedAwaits

\* Nothing is connected, or the answer is refused or complete: the finally clause begins.
LEMMA ClosingKeeps ==
    ASSUME IInv, pc \in {"header", "rest"}, NEW e, BeginsClosing(e),
           \/ e = "ProtocolError" /\ reply' = reply
           \/ e = "none" /\ reply' \in Bodies,
           UNCHANGED <<config, shown, carrier>>
    PROVE  IInv'
<1>1. carrier \in Connections
  BY DEF IInv, TypeOK, Held
<1>2. TypeOK'
  BY <1>1 DEF IInv, TypeOK, BeginsClosing, Awaits, Exceptions, Conditions
<1>3. (Held /\ Fallback /\ Handled /\ CarrierNamesHost)'
  BY <1>1 DEF IInv, TypeOK, Held, Fallback, Handled, CarrierNamesHost, BeginsClosing,
              Connections
<1>4. Ends'
  BY <1>1 DEF IInv, TypeOK, Held, Ends, OnlyTheRefusedIsLeft, OnlyParsersEscape,
              BeginsClosing, Connections
<1> QED
  BY <1>2, <1>3, <1>4 DEF IInv, Ends

\* The request is written to a connection that may carry it.
LEMMA RequestKeeps ==
    ASSUME IInv, NEW c \in Connections, pc \in {"connect", "fallback"}, Request(c),
           UNCHANGED config, shown' \in [Connections -> Certificate], CarrierNamesHost'
    PROVE  IInv'
<1>1. TypeOK'
  BY DEF IInv, TypeOK, Request, Awaits, Conditions
<1>2. (Held /\ Fallback /\ Handled)'
  BY DEF IInv, TypeOK, Held, Fallback, Handled, Request, Connections
<1>3. Ends'
  BY DEF IInv, TypeOK, Held, Ends, OnlyTheRefusedIsLeft, OnlyParsersEscape, Request,
         Connections
<1> QED
  BY <1>1, <1>2, <1>3 DEF IInv, Ends

\* The second connection is given up before anything was written to it.
LEMMA AbandonKeeps ==
    ASSUME IInv, pc = "fallback", NEW e \in {"ProtocolError", "X509Error"}, Abandons(e),
           shown' \in [Connections -> Certificate]
    PROVE  IInv'
<1>1. TypeOK'
  BY DEF IInv, TypeOK, Abandons, EndsWith, Awaits, Exceptions, Conditions
<1>2. (Held /\ Fallback /\ Handled /\ CarrierNamesHost)'
  BY DEF IInv, TypeOK, Held, Fallback, Handled, CarrierNamesHost, Abandons, EndsWith,
         Connections
<1>3. Ends'
  BY DEF IInv, TypeOK, Held, Ends, OnlyTheRefusedIsLeft, OnlyParsersEscape, Abandons,
         EndsWith, Connections
<1> QED
  BY <1>1, <1>2, <1>3 DEF IInv, Ends

LEMMA StepInvariant == IInv /\ [Next]_vars => IInv'
<1> SUFFICES ASSUME IInv, [Next]_vars PROVE IInv'
  OBVIOUS
<1>1. CASE PlainConnected
  <2>1. CarrierNamesHost'
    BY <1>1 DEF PlainConnected, CarrierNamesHost
  <2> QED
    BY <1>1, <2>1, RequestKeeps DEF PlainConnected, IInv, TypeOK, Connections
<1>2. CASE VerifiedConnected
  <2>1. PICK cert \in Certificate : Flaws(cert) = {} /\ shown' = [shown EXCEPT !["first"] = cert]
    BY <1>2 DEF VerifiedConnected
  <2>2. cert.trusted /\ ~ cert.expired /\ \E entry \in cert.san : StandsForHost(entry)
    BY <2>1 DEF Flaws, Certificate
  <2>3. shown'["first"] = cert /\ shown' \in [Connections -> Certificate]
    BY <2>1 DEF IInv, TypeOK, Connections
  <2>4. CarrierNamesHost'
    BY <1>2, <2>2, <2>3 DEF VerifiedConnected, Request, CarrierNamesHost
  <2> QED
    BY <1>2, <2>3, <2>4, RequestKeeps DEF VerifiedConnected, Connections
<1>3. CASE CertificateRefused
  <2>1. PICK cert \in Certificate : \E flaw \in Flaws(cert) :
            /\ shown' = [shown EXCEPT !["first"] = cert]
            /\ IF config.verify \/ flaw # "expired"
               THEN EndsWith("ProtocolError")
               ELSE pc' = "fallback" /\ UNCHANGED <<reply, raised, outcome>>
    BY <1>3 DEF CertificateRefused
  <2>2. shown'["first"] = cert /\ shown' \in [Connections -> Certificate]
    BY <2>1 DEF IInv, TypeOK, Connections
  <2>3. pc' = "fallback" => cert.expired /\ ~ config.verify
    BY <2>1 DEF Flaws, EndsWith
  <2>4. carrier = "none" /\ pc = "connect" /\ config.useTls
        /\ UNCHANGED <<config, conn, carrier, reply>>
    BY <1>3, <2>1 DEF CertificateRefused, IInv, Held, EndsWith
  <2>5. TypeOK'
    BY <2>1, <2>2, <2>4 DEF IInv, TypeOK, EndsWith, Awaits, Exceptions
  <2>6. (Held /\ Fallback /\ Handled /\ CarrierNamesHost)'
    BY <2>1, <2>2, <2>3, <2>4 DEF IInv, Held, Fallback, Handled, CarrierNamesHost, EndsWith,
                                  Connections
  <2>7. Ends'
    BY <2>1, <2>4 DEF IInv, Held, Ends, OnlyTheRefusedIsLeft, OnlyParsersEscape,
                      EndsWith, Connections
  <2> QED
    BY <2>5, <2>6, <2>7 DEF IInv, Ends
<1>4. CASE UnverifiedConnected
  <2>1. PICK cert \in Certificate :
            ToleratesExpired(cert) /\ shown' = [shown EXCEPT !["second"] = cert]
    BY <1>4 DEF UnverifiedConnected
  <2>2. cert.expired /\ \E entry \in cert.san : StandsForHost(entry)
    BY <2>1, ToleratedIsHosts
  <2>3. /\ shown'["second"] = cert /\ shown'["first"] = shown["first"]
        /\ shown' \in [Connections -> Certificate]
    BY <2>1 DEF IInv, TypeOK, Connections
  <2>4. CarrierNamesHost'
    BY <1>4, <2>2, <2>3 DEF UnverifiedConnected, Request, CarrierNamesHost, IInv, Fallback
  <2> QED
    BY <1>4, <2>3, <2>4, RequestKeeps DEF UnverifiedConnected, Connections
<1>5. CASE UnverifiedRefused \/ UnverifiedUnread
  <2>1. PICK e \in {"ProtocolError", "X509Error"} : Abandons(e)
    BY <1>5 DEF UnverifiedRefused, UnverifiedUnread, Examined
  <2>2. shown' \in [Connections -> Certificate]
    <3>1. NoCertificate \in Certificate
      BY DEF Certificate, NoCertificate
    <3>2. CASE UnverifiedRefused
      <4>1. PICK cert \in Certificate \cup {NoCertificate} :
                shown' = [shown EXCEPT !["second"] = cert]
        BY <3>2 DEF UnverifiedRefused
      <4> QED
        BY <3>1, <4>1 DEF IInv, TypeOK, Connections
    <3>3. CASE UnverifiedUnread
      BY <3>3 DEF UnverifiedUnread, IInv, TypeOK
    <3> QED
      BY <1>5, <3>2, <3>3
  <2> QED
    BY <1>5, <2>1, <2>2, AbandonKeeps DEF UnverifiedRefused, UnverifiedUnread
<1>6. CASE Drained
  BY <1>6 DEF Drained, IInv, TypeOK, Held, Fallback, Handled, CarrierNamesHost,
              OnlyTheRefusedIsLeft, OnlyParsersEscape, Awaits
<1>7. CASE HeaderArrives
  BY <1>7 DEF HeaderArrives, IInv, TypeOK, Held, Fallback, Handled, CarrierNamesHost,
              OnlyTheRefusedIsLeft, OnlyParsersEscape, Awaits
<1>8. CASE HeaderRefused
  BY <1>8, ClosingKeeps DEF HeaderRefused
<1>9. CASE RestArrives
  BY <1>9, ClosingKeeps DEF RestArrives
<1>10. CASE TimesOut
  BY <1>10, FailureKeeps DEF TimesOut
<1>11. CASE Breaks
  BY <1>11, FailureKeeps DEF Breaks
<1>12. CASE Cancel
  <2>1. CASE pc = "closing"
    <3>1. UNCHANGED <<config, conn, shown, carrier, reply>> /\ pc' = "ended"
          /\ outcome' = "Cancelled" /\ raised' = "Cancelled"
      BY <1>12, <2>1 DEF Cancel, EndsWith
    <3>2. TypeOK'
      BY <3>1 DEF IInv, TypeOK, Awaits, Exceptions
    <3>3. (Held /\ Fallback /\ Handled /\ CarrierNamesHost)'
      BY <2>1, <3>1 DEF IInv, TypeOK, Held, Fallback, Handled, CarrierNamesHost, Connections
    <3>4. Ends'
      BY <2>1, <3>1 DEF IInv, TypeOK, Held, Ends, OnlyTheRefusedIsLeft,
                        OnlyParsersEscape, Connections
    <3> QED
      BY <3>2, <3>3, <3>4 DEF IInv, Ends
  <2>2. CASE pc # "closing"
    BY <1>12, <2>2, FailureKeeps DEF Cancel, TimedAwaits, IInv, TypeOK, Awaits
  <2> QED
    BY <2>1, <2>2
<1>13. CASE SocketCloses
  <2>1. PICK c \in Connections : conn[c] = "closing" /\ conn' = [conn EXCEPT ![c] = "closed"]
    BY <1>13 DEF SocketCloses
  <2>2. UNCHANGED <<config, pc, shown, carrier, reply, raised, outcome>>
    BY <1>13 DEF SocketCloses
  <2>3. TypeOK'
    BY <2>1, <2>2 DEF IInv, TypeOK, Conditions
  <2>4. (Held /\ Fallback /\ Handled /\ CarrierNamesHost)'
    BY <2>1, <2>2 DEF IInv, TypeOK, Held, Fallback, Handled, CarrierNamesHost, Connections
  <2>5. Ends'
    BY <2>1, <2>2 DEF IInv, TypeOK, Held, Ends, OnlyTheRefusedIsLeft,
                      OnlyParsersEscape, Connections
  <2> QED
    BY <2>3, <2>4, <2>5 DEF IInv, Ends
<1>14. CASE Closed
  <2>1. /\ pc = "closing" /\ pc' = "ended" /\ UNCHANGED <<config, conn, shown, carrier, reply, raised>>
        /\ outcome' = IF raised = "none" THEN Parsed ELSE raised
        /\ conn[carrier] = "closed"
    BY <1>14 DEF Closed
  <2>2. /\ outcome' \in {"ProtocolError", "Cancelled", "credentials", "LookupError", "ValueError"}
        /\ outcome' = "credentials" => reply = "credentials"
        /\ outcome' = "LookupError" => reply = "unknownEncoding"
        /\ outcome' = "ValueError" => reply \in {"multiByteEncoding", "badEncryptType"}
    BY <2>1 DEF IInv, Handled, Parsed, Bodies
  <2>3. TypeOK'
    BY <2>1, <2>2 DEF IInv, TypeOK, Awaits, Exceptions
  <2>4. (Held /\ Fallback /\ Handled /\ CarrierNamesHost)'
    BY <2>1 DEF IInv, TypeOK, Held, Fallback, Handled, CarrierNamesHost, Connections
  <2>5. Ends'
    BY <2>1, <2>2 DEF IInv, TypeOK, Held, Ends, OnlyTheRefusedIsLeft,
                      OnlyParsersEscape, Connections
  <2> QED
    BY <2>3, <2>4, <2>5 DEF IInv, Ends
<1>15. CASE ServerHangsUp
  <2>1. conn["second"] = "abandoned" /\ conn' = [conn EXCEPT !["second"] = "closed"]
        /\ UNCHANGED <<config, pc, shown, carrier, reply, raised, outcome>>
    BY <1>15 DEF ServerHangsUp
  <2>2. TypeOK' /\ (Held /\ Fallback /\ Handled /\ CarrierNamesHost)'
    BY <2>1 DEF IInv, TypeOK, Conditions, Held, Fallback, Handled, CarrierNamesHost,
                OnlyTheRefusedIsLeft, Connections
  <2>3. Ends'
    BY <2>1 DEF IInv, TypeOK, Held, Ends, OnlyTheRefusedIsLeft, OnlyParsersEscape,
                Connections
  <2> QED
    BY <2>2, <2>3 DEF IInv, Ends
<1>16. CASE UNCHANGED vars
  BY <1>16 DEF vars, IInv, TypeOK, Held, Fallback, Handled, CarrierNamesHost,
               OnlyTheRefusedIsLeft, OnlyParsersEscape
<1> QED
  BY <1>1, <1>2, <1>3, <1>4, <1>5, <1>6, <1>7, <1>8, <1>9, <1>10, <1>11, <1>12, <1>13,
     <1>14, <1>15, <1>16 DEF Next

-----------------------------------------------------------------------------
(* The theorems.                                                           *)

\* The invariant holds in every reachable state.
THEOREM Invariance == Spec => []IInv
<1> QED
  BY InitInvariant, StepInvariant, PTL DEF Spec

\* Every reachable state of a call is well typed: what is raised and returned are the
\* exceptions and values of the code.
THEOREM TypeCorrect == Spec => []TypeOK
<1>1. IInv => TypeOK
  BY DEF IInv
<1> QED
  BY <1>1, Invariance, PTL

\* The session is only written to a connection on which a certificate that names the host
\* was shown, for any host and any names: a valid one, or one that has expired, on the
\* second connection of a client that does not insist.
THEOREM HostNamed == Spec => []CarrierNamesHost
<1>1. IInv => CarrierNamesHost
  BY DEF IInv
<1> QED
  BY <1>1, Invariance, PTL

\* A call leaves no connection open but a second one whose certificate it refused.
THEOREM NothingElseLeft == Spec => []OnlyTheRefusedIsLeft
<1>1. IInv => OnlyTheRefusedIsLeft
  BY DEF IInv
<1> QED
  BY <1>1, Invariance, PTL

\* Whatever the network and the server do at any await, a call ends with its credentials,
\* a ProtocolError or its cancellation, unless a parser raises: of the answer, then its
\* connection is closed, or of the second certificate, then nothing was written.
THEOREM ParsersOnly == Spec => []OnlyParsersEscape
<1>1. IInv => OnlyParsersEscape
  BY DEF IInv
<1> QED
  BY <1>1, Invariance, PTL
=============================================================================
