------------------------------- MODULE LafSerial -------------------------------
(***************************************************************************)
(* LafSerial, and the phone it talks to as its methods show it.  What the  *)
(* phone says is a stream without packet boundaries: of every answer what  *)
(* it is, how long its text is, and the text.  Only sendCommand reads: as  *)
(* much of the stream as has come by its timeout, into the buffer in which *)
(* it made its request, and looks at what came first.                      *)
(***************************************************************************)
EXTENDS Naturals, Sequences, SequencesExt

CONSTANTS
  LafCommands,   (* how long commands are; "" and Special are others        *)
  LafTexts,      (* how long the texts of answers are                       *)
  LafRoom,       (* LAF_MAX_DATA_SIZE: how much text the buffer holds       *)
  LafBacklog,    (* bound: how much of the stream is unread                 *)
  MaxLafCalls    (* bound: calls                                            *)

(* A command is followed by a zero in the buffer. *)
ASSUME LafAssumption ==
  /\ LafRoom \in Nat
  /\ LafTexts \subseteq 0 .. LafRoom
  /\ \A n \in LafCommands : n \in Nat \ {0} /\ n + 1 <= LafRoom

VARIABLES
  lafRx,         (* what the phone has said, or is about to, and no read    *)
                 (* has taken                                               *)
  lafPhone,      (* "laf", or "gone" once it resets or powers off           *)
  lafBuffer,     (* the buffer, which all objects share                     *)
  lafLast,       (* the last sendCommand: what it read, and its result      *)
  lafCalls       (* calls made; they number what is sent                    *)

lafVars == <<lafRx, lafPhone, lafBuffer, lafLast, lafCalls>>

Special == "SPECIAL"
Header == 2
(* A packet: its first unit says what it is, its second how long it is. *)
LafUnit(from, of, at, size, fails) ==
  [from |-> from, of |-> of, at |-> at, size |-> size, fails |-> fails]
Packet(from, of, size, fails) ==
  [i \in 1 .. Header + size |-> LafUnit(from, of, i, size, fails)]
NoAnswer == "No Response"
LafInit ==
  /\ lafRx = <<>>
  /\ lafPhone = "laf"
  /\ lafBuffer = [i \in 1 .. Header + LafRoom |-> LafUnit("nobody", 0, 0, 0, FALSE)]
  /\ lafLast = [came |-> <<>>, result |-> NoAnswer]
  /\ lafCalls = 0

Sent == lafCalls + 1
Counts == lafCalls < MaxLafCalls /\ lafCalls' = Sent

(* What the phone says to a call: nothing, or an answer. *)
LafAnswers ==
  IF lafPhone = "gone" THEN {<<>>}
  ELSE {<<>>} \cup {Packet("phone", Sent, n, fails) : n \in LafTexts, fails \in BOOLEAN}
Lines == {line \in {lafRx \o answer : answer \in LafAnswers} : Len(line) <= LafBacklog}

(* enterLaf, sendHello, sendReset, sendPowerOff and getProperty write and   *)
(* return; what the phone says to them stays on the line.                   *)
WritesOnly ==
  /\ Counts
  /\ lafRx' \in Lines
  /\ UNCHANGED <<lafBuffer, lafLast>>
EnterLaf == WritesOnly /\ UNCHANGED lafPhone
SendHello == WritesOnly /\ UNCHANGED lafPhone
GetProperty == WritesOnly /\ UNCHANGED lafPhone
SendReset == WritesOnly /\ lafPhone' = "gone"
SendPowerOff == WritesOnly /\ lafPhone' = "gone"

----------------------------------------------------------------------------
(* sendCommand                                                              *)

Over(buffer, units) ==
  [i \in DOMAIN buffer |-> IF i \in DOMAIN units THEN units[i] ELSE buffer[i]]

(* As Text, of all that was read. *)
Text_AllRead(buffer, count) == SubSeq(buffer, Header + 1, count)
Text(buffer, count) == SubSeq(buffer, Header + 1, Header + buffer[2].size)

(* What begins in the middle of a packet says anything of itself. *)
Result(buffer, count) ==
  IF count = 0 THEN NoAnswer
  ELSE IF buffer[1].at # 1 \/ buffer[2].at # 2 THEN "any text"
  ELSE IF buffer[1].fails THEN "Command Failed"
  ELSE Text(buffer, count)

Asks(size) == Over(lafBuffer, Packet("host", Sent, size, FALSE))
SendNothing ==
  /\ UNCHANGED lafRx
  /\ \/ lafLast' = [came |-> <<>>, result |-> Special] /\ UNCHANGED lafBuffer
     \/ lafLast' = [came |-> <<>>, result |-> ""] /\ lafBuffer' = Asks(0)
SendAndRead ==
  \E n \in LafCommands, line \in Lines :
    \E count \in 0 .. Len(line) :
      LET came == SubSeq(line, 1, count)
          read == Over(Asks(n + 1), came)
      IN  /\ count <= Len(lafBuffer)
          /\ lafRx' = SubSeq(line, count + 1, Len(line))
          /\ lafBuffer' = read
          /\ lafLast' = [came |-> came, result |-> Result(read, count)]
SendLafCommand ==
  /\ Counts
  /\ SendNothing \/ SendAndRead
  /\ UNCHANGED lafPhone

(* Then the port is another one. *)
LafBoots ==
  /\ lafPhone = "gone"
  /\ lafPhone' = "laf"
  /\ lafRx' = <<>>
  /\ UNCHANGED <<lafBuffer, lafLast, lafCalls>>

LafNext ==
  \/ EnterLaf
  \/ SendHello
  \/ GetProperty
  \/ SendReset
  \/ SendPowerOff
  \/ SendLafCommand
  \/ LafBoots

(* An answer that comes first and whole is returned as the phone said it,   *)
(* from the beginning of its text to its end: nothing of the request or the *)
(* earlier answers in whose place it is read, and nothing of the answers,   *)
(* of calls that do not read or of late ones, that are read behind it.      *)
LafTextIsAnswers ==
  LET came == lafLast.came
  IN  /\ came # <<>>
      /\ came[1].at = 1 /\ ~came[1].fails
      /\ Header + came[1].size <= Len(came)
      => lafLast.result =
           [i \in 1 .. came[1].size |->
              LafUnit("phone", came[1].of, Header + i, came[1].size, FALSE)]
==============================================================================
