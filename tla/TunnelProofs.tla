---------------------------- MODULE TunnelProofs ----------------------------
(***************************************************************************)
(* Proofs about module Tunnel, for every window and amount of data: each   *)
(* of the two Pipes behaves as module Pipe says, and together with the     *)
(* stream they implement module Channel.                                   *)
(***************************************************************************)
EXTENDS Tunnel, PipeProofs

(* The results of PipeProofs, for the far Pipe. *)
FarP == INSTANCE PipeProofs
          WITH peer <- fpeer, sent <- fsent, got <- fgot, pc <- fpc,
               read <- fread, wrote <- fwrote, sending <- fsending,
               main <- fmain

-----------------------------------------------------------------------------
(* Each half of the tunnel is a Pipe *)

(***************************************************************************)
(* What the tunnel does to the near Pipe is a step of module Pipe.         *)
(***************************************************************************)
LEMMA NearStep == [TunnelNext]_tunnelVars => [Next]_vars
BY DEF TunnelNext, tunnelVars, nearVars, NearPipe, FarPipe, Stream, CarryOut,
   CarryBack, EndOut, EndBack, CreditOut, CreditBack, NearLosesStream,
   FarLosesStream, Client, Target, Next, Ends

(***************************************************************************)
(* So is what it does to the far one.                                      *)
(***************************************************************************)
LEMMA FarStep == [TunnelNext]_tunnelVars => [Far!Next]_farVars
BY DEF TunnelNext, tunnelVars, nearVars, NearPipe, FarPipe, Stream, CarryOut,
   CarryBack, EndOut, EndBack, CreditOut, CreditBack, NearLosesStream,
   FarLosesStream, Client, Target, Far!Next, Ends, Far!Ends

(***************************************************************************)
(* The far Pipe of module Tunnel is the one whose results FarP holds.      *)
(***************************************************************************)
LEMMA FarIsFarP == [Far!Next]_farVars => [FarP!Next]_FarP!vars
BY DEF Far!Next, FarP!Next, Far!Copy, FarP!Copy, Far!Close, FarP!Close,
   Far!Read, FarP!Read, Far!ReadEOF, FarP!ReadEOF, Far!ReadError,
   FarP!ReadError, Far!Write, FarP!Write, Far!WriteError, FarP!WriteError,
   Far!closeWrite, FarP!closeWrite, Far!Send, FarP!Send, Far!Receive,
   FarP!Receive, Far!Finish, FarP!Finish, Far!Break, FarP!Break,
   Far!Ends, FarP!Ends, Far!Other, FarP!Other, farVars, FarP!vars,
   Far!peerVars, FarP!peerVars, Far!copyVars, FarP!copyVars

-----------------------------------------------------------------------------
(* The stream between them *)

(***************************************************************************)
(* The inductive invariant of the composition: both Pipes are in a state   *)
(* of a Pipe, no more comes out of the stream than was written into it,    *)
(* and it ends at one side only when it was ended at the other and every   *)
(* byte in front of the end has come out.                                  *)
(***************************************************************************)
StreamInv ==
    /\ fsent["a"] <= wrote["b"] /\ sent["b"] <= fwrote["a"]
    /\ fpeer["a"] = "finished" =>
         sending["b"] = "ended" /\ fsent["a"] = wrote["b"]
    /\ peer["b"] = "finished" =>
         fsending["a"] = "ended" /\ sent["b"] = fwrote["a"]

TunnelInv == PipeInv /\ FarP!PipeInv /\ StreamInv

(* What the end e of a Pipe receives when its other end is o. *)
Passed(p, s, g, c, r, w, o, e) ==
    /\ {s[o], g[e], r[o], w[e]} \subseteq Nat
    /\ g[e] <= w[e] /\ w[e] <= r[o] /\ r[o] <= s[o]
    /\ c[o] = "reading" => w[e] = r[o]
    /\ c[o] \in {"closing", "done"} =>
         \/ p[e] = "broken" \/ p[o] = "broken"
         \/ p[o] = "finished" /\ w[e] = s[o]

(***************************************************************************)
(* The invariant of the near Pipe, end by end.                             *)
(***************************************************************************)
LEMMA NearEnds ==
    ASSUME PipeInv
    PROVE  /\ Passed(peer, sent, got, pc, read, wrote, "a", "b")
           /\ Passed(peer, sent, got, pc, read, wrote, "b", "a")
           /\ sending["a"] = "ended" <=> pc["b"] = "done"
           /\ sending["b"] = "ended" <=> pc["a"] = "done"
BY WindowAssumption DEF PipeInv, TypeOK, Complete, Ends, Other, Passed

(***************************************************************************)
(* And of the far one.                                                     *)
(***************************************************************************)
LEMMA FarEnds ==
    ASSUME FarP!PipeInv
    PROVE  /\ Passed(fpeer, fsent, fgot, fpc, fread, fwrote, "a", "b")
           /\ Passed(fpeer, fsent, fgot, fpc, fread, fwrote, "b", "a")
           /\ fsending["a"] = "ended" <=> fpc["b"] = "done"
           /\ fsending["b"] = "ended" <=> fpc["a"] = "done"
BY WindowAssumption
   DEF FarP!PipeInv, FarP!TypeOK, FarP!Complete, FarP!Ends, FarP!Other, Passed

(***************************************************************************)
(* Once a Pipe has ended its direction of the stream it writes no more     *)
(* into it, so what ends at the other side stays complete.                 *)
(***************************************************************************)
LEMMA StreamStep ==
    ASSUME TunnelInv, [TunnelNext]_tunnelVars
    PROVE  StreamInv'
<1>1. /\ PipeInv /\ TypeOK /\ FarP!PipeInv /\ FarP!TypeOK /\ StreamInv
      /\ Ends = {"a", "b"}
  BY DEF TunnelInv, PipeInv, FarP!PipeInv, Ends
<1> USE <1>1, NearEnds, FarEnds DEF StreamInv, Passed
<1>2. CASE UNCHANGED tunnelVars
  BY <1>2 DEF tunnelVars, nearVars, farVars, vars, peerVars, copyVars
<1>3. CASE NearPipe
  <2> USE <1>3 DEF NearPipe, farVars, TypeOK, Other
  <2>1. CASE Close
    BY <2>1 DEF Close, peerVars
  <2>2. ASSUME NEW e \in Ends, Read(e) \/ ReadEOF(e) \/ ReadError(e) \/ WriteError(e)
        PROVE  StreamInv'
    BY <2>2 DEF Read, ReadEOF, ReadError, WriteError, peerVars
  <2>3. ASSUME NEW e \in Ends, Write(e) PROVE StreamInv'
    BY <2>3 DEF Write, peerVars
  <2>4. ASSUME NEW e \in Ends, closeWrite(e) PROVE StreamInv'
    BY <2>4 DEF closeWrite, peerVars
  <2> QED
    BY <2>1, <2>2, <2>3, <2>4 DEF Copy
<1>4. CASE FarPipe
  <2> USE <1>4 DEF FarPipe, nearVars, vars, peerVars, copyVars, FarP!TypeOK,
            FarP!Ends, Far!Other, Far!peerVars
  <2>1. CASE Far!Close
    BY <2>1 DEF Far!Close, Far!Ends
  <2>2. ASSUME NEW e \in Ends,
               \/ Far!Read(e) \/ Far!ReadEOF(e) \/ Far!ReadError(e)
               \/ Far!WriteError(e)
        PROVE  StreamInv'
    BY <2>2 DEF Far!Read, Far!ReadEOF, Far!ReadError, Far!WriteError
  <2>3. ASSUME NEW e \in Ends, Far!Write(e) PROVE StreamInv'
    BY <2>3 DEF Far!Write
  <2>4. ASSUME NEW e \in Ends, Far!closeWrite(e) PROVE StreamInv'
    BY <2>4 DEF Far!closeWrite
  <2> QED
    BY <2>1, <2>2, <2>3, <2>4 DEF Far!Copy
<1>5. CASE CarryOut \/ CarryBack
  BY <1>5 DEF CarryOut, CarryBack, Far!Send, Send, Far!copyVars, farVars,
       nearVars, vars, peerVars, copyVars, TypeOK, FarP!TypeOK, FarP!Ends
<1>6. CASE EndOut \/ EndBack
  BY <1>6 DEF EndOut, EndBack, Far!Finish, Finish, Far!copyVars, farVars,
       nearVars, vars, peerVars, copyVars, TypeOK, FarP!TypeOK, FarP!Ends
<1>7. CASE CreditOut \/ CreditBack
  BY <1>7 DEF CreditOut, CreditBack, Far!Receive, Receive, Far!copyVars,
       farVars, nearVars, vars, peerVars, copyVars
<1>8. CASE NearLosesStream \/ FarLosesStream
  BY <1>8 DEF NearLosesStream, FarLosesStream, Far!Break, Break, Far!copyVars,
       farVars, nearVars, vars, peerVars, copyVars, TypeOK, FarP!TypeOK,
       FarP!Ends
<1>9. CASE Client
  BY <1>9 DEF Client, Send, Receive, Finish, Break, farVars, copyVars, TypeOK
<1>10. CASE Target
  BY <1>10 DEF Target, Far!Send, Far!Receive, Far!Finish, Far!Break,
       Far!copyVars, nearVars, vars, peerVars, copyVars, FarP!TypeOK, FarP!Ends
<1> QED
  BY <1>2, <1>3, <1>4, <1>5, <1>6, <1>7, <1>8, <1>9, <1>10
     DEF TunnelNext, Stream

(***************************************************************************)
(* The invariant holds of every behaviour of the tunnel.                   *)
(***************************************************************************)
LEMMA TunnelAlways == TunnelSpec => []TunnelInv
<1>1. TunnelInit => TunnelInv
  <2> SUFFICES ASSUME TunnelInit PROVE TunnelInv
    OBVIOUS
  <2>1. PipeInv
    BY OtherEnd, WindowAssumption
       DEF TunnelInit, Init, PipeInv, TypeOK, Complete
  <2>2. FarP!PipeInv
    BY FarP!OtherEnd, WindowAssumption
       DEF TunnelInit, Far!Init, FarP!PipeInv, FarP!TypeOK, FarP!Complete,
           Far!Ends, FarP!Ends
  <2>3. StreamInv
    BY DEF TunnelInit, Init, Far!Init, Ends, Far!Ends, StreamInv
  <2> QED
    BY <2>1, <2>2, <2>3 DEF TunnelInv
<1>2. TunnelInv /\ [TunnelNext]_tunnelVars => TunnelInv'
  <2> SUFFICES ASSUME TunnelInv, [TunnelNext]_tunnelVars PROVE TunnelInv'
    OBVIOUS
  <2>1. PipeInv'
    BY NearStep, PipeStep DEF TunnelInv
  <2>2. FarP!PipeInv'
    <3>1. [FarP!Next]_FarP!vars
      BY FarStep, FarIsFarP
    <3>2. FarP!PipeInv
      BY DEF TunnelInv
    <3> QED
      BY <3>1, <3>2, FarP!PipeStep, WindowAssumption
  <2>3. StreamInv'
    BY StreamStep
  <2> QED
    BY <2>1, <2>2, <2>3 DEF TunnelInv
<1> QED
  BY <1>1, <1>2, PTL DEF TunnelSpec

(***************************************************************************)
(* Inside a tunnel each Pipe behaves as module Pipe alone: QUIC and the    *)
(* other Pipe are, at its stream's end, a peer like any other, so all that *)
(* is proved of Pipe holds of both.                                        *)
(***************************************************************************)
THEOREM BothArePipes == TunnelSpec => Spec /\ Far!Spec
<1>1. TunnelInit => Init /\ Far!Init
  BY DEF TunnelInit
<1>2. [TunnelNext]_tunnelVars => [Far!Next]_Far!vars
  BY FarStep DEF farVars, Far!vars, Far!peerVars, Far!copyVars
<1> QED
  BY <1>1, <1>2, NearStep, PTL DEF TunnelSpec, Spec, Far!Spec

-----------------------------------------------------------------------------
(* The tunnel implements the channel *)

(* Some connection on the way has broken. *)
Broken ==
    StreamLost \/ peer["a"] = "broken" \/ fpeer["b"] = "broken"

(***************************************************************************)
(* Along the whole way no more arrives than was sent; and a copy that has  *)
(* stopped at the last Pipe, with every connection sound, has passed on    *)
(* all that the party at the far end sent before it finished.              *)
(***************************************************************************)
LEMMA AlongTheWay ==
    ASSUME TunnelInv
    PROVE  /\ wrote["a"] \in Nat /\ got["a"] \in Nat /\ fsent["b"] \in Nat
           /\ got["a"] <= wrote["a"] /\ wrote["a"] <= fsent["b"]
           /\ pc["b"] \in {"closing", "done"} /\ ~Broken =>
                fpeer["b"] = "finished" /\ wrote["a"] = fsent["b"]
           /\ fwrote["b"] \in Nat /\ fgot["b"] \in Nat /\ sent["a"] \in Nat
           /\ fgot["b"] <= fwrote["b"] /\ fwrote["b"] <= sent["a"]
           /\ fpc["a"] \in {"closing", "done"} /\ ~Broken =>
                peer["a"] = "finished" /\ fwrote["b"] = sent["a"]
BY NearEnds, FarEnds DEF TunnelInv, StreamInv, Passed, Broken, StreamLost

(***************************************************************************)
(* What a step of the channel does, in the variables of the tunnel.        *)
(***************************************************************************)
absVars ==
    <<peer["a"] # "sending", fpeer["b"] # "sending", sent["a"], fsent["b"],
      got["a"], fgot["b"],
      sending["a"] = "ended" /\ got["a"] = wrote["a"],
      fsending["b"] = "ended" /\ fgot["b"] = fwrote["b"], Broken>>

(***************************************************************************)
(* A step that changes none of it is a stutter of the channel.             *)
(***************************************************************************)
LEMMA AbsStutter ==
    ASSUME UNCHANGED absVars PROVE UNCHANGED Ch!vars
BY DEF absVars, Ch!vars, AtEnds, Broken

(***************************************************************************)
(* A byte that the client or the target sends.                             *)
(***************************************************************************)
LEMMA AbsSend ==
    ASSUME UNCHANGED <<peer, fpeer, got, fgot, wrote, fwrote, sending, fsending>>,
           \/ /\ peer["a"] = "sending" /\ sent'["a"] = sent["a"] + 1
              /\ UNCHANGED fsent
           \/ /\ fpeer["b"] = "sending" /\ fsent'["b"] = fsent["b"] + 1
              /\ UNCHANGED sent
    PROVE  Ch!Next
<1> USE DEF Ch!Send, AtEnds, StreamLost, Ends
<1>1. CASE peer["a"] = "sending" /\ sent'["a"] = sent["a"] + 1 /\ UNCHANGED fsent
  <2>1. Ch!Send("a")
    BY <1>1
  <2> QED
    BY <2>1 DEF Ch!Next, Ch!Ends
<1>2. CASE fpeer["b"] = "sending" /\ fsent'["b"] = fsent["b"] + 1 /\ UNCHANGED sent
  <2>1. Ch!Send("b")
    BY <1>2
  <2> QED
    BY <2>1 DEF Ch!Next, Ch!Ends
<1> QED
  BY <1>1, <1>2

(***************************************************************************)
(* The client or the target will send no more, and nothing breaks that was *)
(* not broken before.                                                      *)
(***************************************************************************)
LEMMA AbsFinish ==
    ASSUME UNCHANGED <<Broken, sent, fsent, got, fgot, wrote, fwrote, sending,
                       fsending>>,
           \/ /\ peer["a"] = "sending" /\ peer'["a"] # "sending"
              /\ UNCHANGED fpeer
           \/ /\ fpeer["b"] = "sending" /\ fpeer'["b"] # "sending"
              /\ UNCHANGED peer
    PROVE  Ch!Next
<1> USE DEF Ch!Finish, AtEnds, StreamLost, Broken, Ends
<1>1. CASE peer["a"] = "sending" /\ peer'["a"] # "sending" /\ UNCHANGED fpeer
  <2>1. Ch!Finish("a")
    BY <1>1
  <2> QED
    BY <2>1 DEF Ch!Next, Ch!Ends
<1>2. CASE fpeer["b"] = "sending" /\ fpeer'["b"] # "sending" /\ UNCHANGED peer
  <2>1. Ch!Finish("b")
    BY <1>2
  <2> QED
    BY <2>1 DEF Ch!Next, Ch!Ends
<1> QED
  BY <1>1, <1>2

(***************************************************************************)
(* The first connection on the way breaks.                                 *)
(***************************************************************************)
LEMMA AbsBreak ==
    ASSUME UNCHANGED <<sent, fsent, got, fgot, wrote, fwrote, sending, fsending>>,
           ~Broken, Broken',
           \/ /\ peer["a"] # "sending" => peer'["a"] # "sending"
              /\ UNCHANGED fpeer["b"]
           \/ /\ fpeer["b"] # "sending" => fpeer'["b"] # "sending"
              /\ UNCHANGED peer["a"]
    PROVE  Ch!Next
<1>1. Ch!Break
  BY DEF Ch!Break, AtEnds, StreamLost, Ends, Broken, Ch!Ends
<1> QED
  BY <1>1 DEF Ch!Next

(***************************************************************************)
(* A byte, the end of data, or both, reach the client.  AlongTheWay says   *)
(* that the end comes after all the bytes, unless something broke.         *)
(***************************************************************************)
LEMMA AbsDeliverClient ==
    ASSUME TunnelInv,
           got'["a"] \in {got["a"], got["a"] + 1}, got'["a"] <= wrote["a"],
           ~(sending["a"] = "ended" /\ got["a"] = wrote["a"]),
           sending'["a"] = "ended" => pc["b"] \in {"closing", "done"},
           UNCHANGED <<peer, fpeer, sent, fsent, wrote, fwrote, fgot, fsending>>
    PROVE  Ch!Next
<1> DEFINE Told == sending["a"] = "ended" /\ got["a"] = wrote["a"]
           OtherTold == fsending["b"] = "ended" /\ fgot["b"] = fwrote["b"]
<1> USE DEF AtEnds, Ends, Ch!Other
<1>1. ~AtEnds(Told, OtherTold)["a"]
  OBVIOUS
<1>2. AtEnds(got["a"], fgot["b"])' \in
        {AtEnds(got["a"], fgot["b"]),
         [AtEnds(got["a"], fgot["b"]) EXCEPT !["a"] = @ + 1]}
  OBVIOUS
<1>3. AtEnds(got["a"], fgot["b"])'["a"]
        <= AtEnds(sent["a"], fsent["b"])[Ch!Other("a")]
  BY AlongTheWay
<1>4. AtEnds(Told, OtherTold)' \in
        {AtEnds(Told, OtherTold), [AtEnds(Told, OtherTold) EXCEPT !["a"] = TRUE]}
  <2>1. CASE Told'
    BY <2>1
  <2>2. CASE ~Told'
    BY <2>2
  <2> QED
    BY <2>1, <2>2
<1>5. Told' => \/ Broken
               \/ fpeer["b"] # "sending" /\ got'["a"] = fsent["b"]
  BY AlongTheWay
<1>6. AtEnds(Told, OtherTold)'["a"] = Told'
  OBVIOUS
<1>7. AtEnds(peer["a"] # "sending", fpeer["b"] # "sending")["b"]
        = (fpeer["b"] # "sending")
  OBVIOUS
<1>8. Ch!Deliver("a")
  BY <1>1, <1>2, <1>3, <1>4, <1>5, <1>6, <1>7 DEF Ch!Deliver, Broken, StreamLost
<1> QED
  BY <1>8 DEF Ch!Next, Ch!Ends

(***************************************************************************)
(* And the same for the target.                                            *)
(***************************************************************************)
LEMMA AbsDeliverTarget ==
    ASSUME TunnelInv,
           fgot'["b"] \in {fgot["b"], fgot["b"] + 1}, fgot'["b"] <= fwrote["b"],
           ~(fsending["b"] = "ended" /\ fgot["b"] = fwrote["b"]),
           fsending'["b"] = "ended" => fpc["a"] \in {"closing", "done"},
           UNCHANGED <<peer, fpeer, sent, fsent, wrote, fwrote, got, sending>>
    PROVE  Ch!Next
<1> DEFINE Told == fsending["b"] = "ended" /\ fgot["b"] = fwrote["b"]
           OtherTold == sending["a"] = "ended" /\ got["a"] = wrote["a"]
<1> USE DEF AtEnds, Ends, Ch!Other
<1>1. ~AtEnds(OtherTold, Told)["b"]
  OBVIOUS
<1>2. AtEnds(got["a"], fgot["b"])' \in
        {AtEnds(got["a"], fgot["b"]),
         [AtEnds(got["a"], fgot["b"]) EXCEPT !["b"] = @ + 1]}
  OBVIOUS
<1>3. AtEnds(got["a"], fgot["b"])'["b"]
        <= AtEnds(sent["a"], fsent["b"])[Ch!Other("b")]
  BY AlongTheWay
<1>4. AtEnds(OtherTold, Told)' \in
        {AtEnds(OtherTold, Told), [AtEnds(OtherTold, Told) EXCEPT !["b"] = TRUE]}
  <2>1. CASE Told'
    BY <2>1
  <2>2. CASE ~Told'
    BY <2>2
  <2> QED
    BY <2>1, <2>2
<1>5. Told' => \/ Broken
               \/ peer["a"] # "sending" /\ fgot'["b"] = sent["a"]
  BY AlongTheWay
<1>6. AtEnds(OtherTold, Told)'["b"] = Told'
  OBVIOUS
<1>7. AtEnds(peer["a"] # "sending", fpeer["b"] # "sending")["a"]
        = (peer["a"] # "sending")
  OBVIOUS
<1>8. Ch!Deliver("b")
  BY <1>1, <1>2, <1>3, <1>4, <1>5, <1>6, <1>7 DEF Ch!Deliver, Broken, StreamLost
<1> QED
  BY <1>8 DEF Ch!Next, Ch!Ends

(***************************************************************************)
(* Every step of the two Pipes, the stream and the parties is a step of    *)
(* the channel or changes nothing of it.                                   *)
(***************************************************************************)
LEMMA ChannelStep ==
    ASSUME TunnelInv, [TunnelNext]_tunnelVars
    PROVE  [Ch!Next]_Ch!vars
<1>1. /\ TypeOK /\ FarP!TypeOK /\ Ends = {"a", "b"} /\ FarP!Ends = {"a", "b"}
      /\ sending["a"] = "ended" <=> pc["b"] = "done"
      /\ sending["b"] = "ended" <=> pc["a"] = "done"
      /\ fsending["a"] = "ended" <=> fpc["b"] = "done"
      /\ fsending["b"] = "ended" <=> fpc["a"] = "done"
  BY NearEnds, FarEnds DEF TunnelInv, PipeInv, FarP!PipeInv, Ends, FarP!Ends
<1>2. ASSUME UNCHANGED absVars PROVE [Ch!Next]_Ch!vars
  BY <1>2, AbsStutter
<1> USE <1>1 DEF absVars, Broken, StreamLost
<1>3. CASE UNCHANGED tunnelVars
  BY <1>2, <1>3 DEF tunnelVars, nearVars, farVars, vars, peerVars, copyVars
<1>4. CASE NearPipe
  <2> USE <1>4 DEF NearPipe, farVars, TypeOK, peerVars, Other
  <2>1. CASE Close
    BY <1>2, <2>1 DEF Close
  <2>2. ASSUME NEW e \in Ends, Read(e) \/ ReadEOF(e) \/ ReadError(e)
                                 \/ WriteError(e)
        PROVE  UNCHANGED absVars
    BY <2>2 DEF Read, ReadEOF, ReadError, WriteError
  <2>3. ASSUME NEW e \in Ends, Write(e) PROVE UNCHANGED absVars
    BY <2>3 DEF Write
  <2>4. CASE closeWrite("a")
    BY <1>2, <2>4 DEF closeWrite
  <2>5. CASE closeWrite("b")
    BY <2>5, AbsDeliverClient, AlongTheWay DEF closeWrite
  <2> QED
    BY <1>2, <2>1, <2>2, <2>3, <2>4, <2>5 DEF Copy
<1>5. CASE FarPipe
  <2> USE <1>5 DEF FarPipe, nearVars, vars, peerVars, copyVars, FarP!TypeOK,
            Far!peerVars, Far!Other, Far!Ends
  <2>1. CASE Far!Close
    BY <1>2, <2>1 DEF Far!Close
  <2>2. ASSUME NEW e \in Ends, Far!Read(e) \/ Far!ReadEOF(e)
                                 \/ Far!ReadError(e) \/ Far!WriteError(e)
        PROVE  UNCHANGED absVars
    BY <2>2 DEF Far!Read, Far!ReadEOF, Far!ReadError, Far!WriteError
  <2>3. ASSUME NEW e \in Ends, Far!Write(e) PROVE UNCHANGED absVars
    BY <2>3 DEF Far!Write
  <2>4. CASE Far!closeWrite("b")
    BY <1>2, <2>4 DEF Far!closeWrite
  <2>5. CASE Far!closeWrite("a")
    BY <2>5, AbsDeliverTarget, AlongTheWay DEF Far!closeWrite
  <2> QED
    BY <1>2, <2>1, <2>2, <2>3, <2>4, <2>5 DEF Far!Copy
<1>6. CASE Stream
  <2>1. CASE CarryOut \/ CarryBack
    BY <1>2, <2>1 DEF CarryOut, CarryBack, Far!Send, Send, Far!copyVars,
         farVars, nearVars, vars, peerVars, copyVars, TypeOK, FarP!TypeOK
  <2>2. CASE EndOut \/ EndBack
    BY <1>2, <2>2 DEF EndOut, EndBack, Far!Finish, Finish, Far!copyVars,
         farVars, nearVars, vars, peerVars, copyVars, TypeOK, FarP!TypeOK
  <2>3. CASE CreditOut \/ CreditBack
    BY <1>2, <2>3 DEF CreditOut, CreditBack, Far!Receive, Receive,
         Far!copyVars, farVars, nearVars, vars, peerVars, copyVars, TypeOK,
         FarP!TypeOK
  <2> QED
    BY <1>6, <2>1, <2>2, <2>3 DEF Stream
<1>7. CASE NearLosesStream \/ FarLosesStream
  <2> USE <1>7 DEF NearLosesStream, FarLosesStream, Far!Break, Break,
            Far!copyVars, farVars, nearVars, vars, peerVars, copyVars, TypeOK,
            FarP!TypeOK
  <2>1. CASE Broken
    BY <1>2, <2>1
  <2>2. CASE ~Broken
    BY <2>2, AbsBreak
  <2> QED
    BY <2>1, <2>2
<1>8. CASE Client
  <2> USE <1>8 DEF farVars, copyVars, TypeOK
  <2>1. CASE Send("a") /\ UNCHANGED farVars
    BY <2>1, AbsSend DEF Send
  <2>2. CASE Receive("a") /\ UNCHANGED farVars
    BY <2>2, AbsDeliverClient, AlongTheWay DEF Receive
  <2>3. CASE Finish("a") /\ UNCHANGED farVars
    BY <2>3, AbsFinish DEF Finish
  <2>4. CASE Break("a") /\ UNCHANGED farVars
    <3>1. CASE ~Broken
      BY <2>4, <3>1, AbsBreak DEF Break
    <3>2. CASE Broken /\ peer["a"] = "sending"
      BY <2>4, <3>2, AbsFinish DEF Break
    <3>3. CASE Broken /\ peer["a"] # "sending"
      BY <1>2, <2>4, <3>3 DEF Break
    <3> QED
      BY <3>1, <3>2, <3>3
  <2> QED
    BY <2>1, <2>2, <2>3, <2>4 DEF Client
<1>9. CASE Target
  <2> USE <1>9 DEF nearVars, vars, peerVars, copyVars, Far!copyVars, FarP!TypeOK
  <2>1. CASE Far!Send("b") /\ UNCHANGED nearVars
    BY <2>1, AbsSend DEF Far!Send
  <2>2. CASE Far!Receive("b") /\ UNCHANGED nearVars
    BY <2>2, AbsDeliverTarget, AlongTheWay DEF Far!Receive
  <2>3. CASE Far!Finish("b") /\ UNCHANGED nearVars
    BY <2>3, AbsFinish DEF Far!Finish
  <2>4. CASE Far!Break("b") /\ UNCHANGED nearVars
    <3>1. CASE ~Broken
      BY <2>4, <3>1, AbsBreak DEF Far!Break
    <3>2. CASE Broken /\ fpeer["b"] = "sending"
      BY <2>4, <3>2, AbsFinish DEF Far!Break
    <3>3. CASE Broken /\ fpeer["b"] # "sending"
      BY <1>2, <2>4, <3>3 DEF Far!Break
    <3> QED
      BY <3>1, <3>2, <3>3
  <2> QED
    BY <2>1, <2>2, <2>3, <2>4 DEF Target
<1> QED
  BY <1>3, <1>4, <1>5, <1>6, <1>7, <1>8, <1>9 DEF TunnelNext

(***************************************************************************)
(* Two Pipes and a QUIC stream are one channel between client and target:  *)
(* no byte is lost or added, the end of data comes after all of them, and  *)
(* too early only when a connection on the way has broken.                 *)
(***************************************************************************)
THEOREM TunnelIsAChannel == TunnelSpec => ImplementsChannel
<1>1. TunnelInit => Ch!Init
  <2> SUFFICES ASSUME TunnelInit PROVE Ch!Init
    OBVIOUS
  <2>1. /\ peer["a"] = "sending" /\ peer["b"] = "sending"
        /\ fpeer["a"] = "sending" /\ fpeer["b"] = "sending"
        /\ sent["a"] = 0 /\ fsent["b"] = 0 /\ got["a"] = 0 /\ fgot["b"] = 0
        /\ sending["a"] = "open" /\ fsending["b"] = "open"
    BY DEF TunnelInit, Init, Far!Init, Ends, Far!Ends
  <2>2. AtEnds(peer["a"] # "sending", fpeer["b"] # "sending")
          = [e \in Ends |-> FALSE]
    BY <2>1 DEF AtEnds
  <2>3. AtEnds(sending["a"] = "ended" /\ got["a"] = wrote["a"],
               fsending["b"] = "ended" /\ fgot["b"] = fwrote["b"])
          = [e \in Ends |-> FALSE]
    BY <2>1 DEF AtEnds
  <2>4. /\ AtEnds(sent["a"], fsent["b"]) = [e \in Ends |-> 0]
        /\ AtEnds(got["a"], fgot["b"]) = [e \in Ends |-> 0]
    BY <2>1 DEF AtEnds
  <2>5. ~(StreamLost \/ peer["a"] = "broken" \/ fpeer["b"] = "broken")
    BY <2>1 DEF StreamLost
  <2>6. Ch!Ends = Ends
    BY DEF Ch!Ends, Ends
  <2> QED
    BY <2>2, <2>3, <2>4, <2>5, <2>6 DEF Ch!Init
<1> QED
  BY <1>1, ChannelStep, TunnelAlways, PTL
     DEF TunnelSpec, ImplementsChannel, Ch!Spec

-----------------------------------------------------------------------------
(* What holds from one end of the tunnel to the other *)

(* The client, and the target, has been told that the other sends no more. *)
ClientTold == sending["a"] = "ended" /\ got["a"] = wrote["a"]
TargetTold == fsending["b"] = "ended" /\ fgot["b"] = fwrote["b"]

(* Neither receives what the other did not send; and while no connection on
   the way has broken, a party told the end has received everything, from a
   party that has finished. *)
EndToEnd ==
    /\ got["a"] <= fsent["b"] /\ fgot["b"] <= sent["a"]
    /\ ClientTold /\ ~Broken =>
         fpeer["b"] = "finished" /\ got["a"] = fsent["b"]
    /\ TargetTold /\ ~Broken =>
         peer["a"] = "finished" /\ fgot["b"] = sent["a"]

(***************************************************************************)
(* In both processes of a tunnel transport.Pipe passes an end of data on   *)
(* only behind the data, the one that dialled the target as well as the    *)
(* one the client connected to.                                            *)
(***************************************************************************)
THEOREM BothPipesAreClean ==
    TunnelSpec => [](CleanHalfClose /\ FarP!CleanHalfClose)
<1>1. PipeInv => CleanHalfClose
  BY OtherEnd DEF PipeInv, CleanHalfClose, Complete
<1>2. FarP!PipeInv => FarP!CleanHalfClose
  BY FarP!OtherEnd, WindowAssumption
     DEF FarP!PipeInv, FarP!CleanHalfClose, FarP!Complete
<1>3. TunnelInv => CleanHalfClose /\ FarP!CleanHalfClose
  BY <1>1, <1>2 DEF TunnelInv
<1> QED
  BY <1>3, TunnelAlways, PTL

(***************************************************************************)
(* The half-closes of both calls of transport.Pipe add up: a client that   *)
(* reads the end of data over sound connections has read every byte the    *)
(* target sent, and the target has closed its side, and the other way      *)
(* round.  A reset that Pipe passes on as an end of data is the exception. *)
(***************************************************************************)
THEOREM EndMeansAll == TunnelSpec => []EndToEnd
<1>1. TunnelInv => EndToEnd
  <2> SUFFICES ASSUME TunnelInv PROVE EndToEnd
    OBVIOUS
  <2>1. PipeInv /\ FarP!PipeInv
    BY DEF TunnelInv
  <2>2. ClientTold => pc["b"] = "done" /\ got["a"] = wrote["a"]
    BY <2>1, NearEnds DEF ClientTold
  <2>3. TargetTold => fpc["a"] = "done" /\ fgot["b"] = fwrote["b"]
    BY <2>1, FarEnds DEF TargetTold
  <2> QED
    BY <2>2, <2>3, AlongTheWay DEF EndToEnd
<1> QED
  BY <1>1, TunnelAlways, PTL
=============================================================================
