------------------------------- MODULE Pn532 -------------------------------
(***************************************************************************)
(* The frames a host exchanges with the PN532, and what the driver makes   *)
(* of the bytes it read from the bus.                                      *)
(*                                                                         *)
(* A frame is zeros, the start byte, the length, the length's checksum,    *)
(* the data, the data's checksum and a postamble, in 8-bit arithmetic.     *)
(***************************************************************************)
EXTENDS Integers, Sequences, FiniteSetsExt

CONSTANTS
    Modulus,        \* 2^8: the values of a byte
    Pn532ToHost,    \* first byte of a response
    FirmwareCommand,    \* PN532_COMMAND_GETFIRMWAREVERSION
    SamCommand,     \* PN532_COMMAND_SAMCONFIGURATION
    ScanCommand,    \* PN532_COMMAND_INLISTPASSIVETARGET
    MaxUidLength    \* the longest uid the driver accepts

ASSUME ByteAssumption ==
    /\ Modulus \in Nat \ {0}
    /\ {Pn532ToHost} \cup UNION {{c, c + 1} : c \in {FirmwareCommand, SamCommand, ScanCommand}}
            \subseteq 0 .. Modulus - 1
    /\ MaxUidLength \in Nat /\ MaxUidLength + 9 < Modulus

Bytes == 0 .. Modulus - 1
StartCode == Modulus - 1

\* Mutant of Complement: the bits are inverted and nothing is added.
OnesComplement(n) == Modulus - 1 - n

Complement(n) == (Modulus - n) % Modulus

Total(s) ==
    LET upTo[k \in 0 .. Len(s)] == IF k = 0 THEN 0 ELSE upTo[k - 1] + s[k]
    IN  upTo[Len(s)]

\* PN532_WriteFrame.  Its checksum starts with the start code's bytes and is
\* inverted, so that with the data it sums to zero.
Frame(data) ==
    <<0, 0, StartCode, Len(data), Complement(Len(data))>>
        \o data
        \o <<Modulus - 1 - ((StartCode + Total(data)) % Modulus), 0>>

----------------------------------------------------------------------------
(* PN532_ReadFrame on the bytes b that were read from the bus. *)

\* What it may come to other than data.
ParseError == [parse |-> "error"]
ParseHang == [parse |-> "hang"]

\* The first byte that is not zero should be the start byte, the length next.
Start(b) == Min({i \in DOMAIN b : b[i] # 0} \cup {Len(b) + 1})
FrameLength(b) == b[Start(b) + 1]
DataStart(b) == Start(b) + 3

HasStart(b) == Start(b) + 2 <= Len(b) /\ b[Start(b)] = StartCode
LengthAgrees(b) == (FrameLength(b) + b[Start(b) + 2]) % Modulus = 0

\* Mutant of DataAgrees: nobody adds the data up.
DataUnchecked(b) == TRUE

DataAgrees(b) ==
    Total(SubSeq(b, DataStart(b), DataStart(b) + FrameLength(b))) % Modulus = 0

FrameData(b) == SubSeq(b, DataStart(b), DataStart(b) + FrameLength(b) - 1)

\* Mutant of ReadFrame: the counter is signed and overflows halfway.
ReadFrameSigned(b) ==
    CASE ~HasStart(b) \/ ~LengthAgrees(b) -> ParseError
      [] HasStart(b) /\ LengthAgrees(b) /\ FrameLength(b) >= Modulus \div 2 -> ParseHang
      [] OTHER -> IF DataStart(b) + FrameLength(b) <= Len(b) /\ DataAgrees(b)
                  THEN [parse |-> "data", data |-> FrameData(b)]
                  ELSE ParseError

\* The 8-bit counter of the loop that adds the data up never exceeds the
\* largest length.  A shorter frame that runs past the bytes that were read is
\* one the bus of this model does not deliver.
ReadFrame(b) ==
    CASE ~HasStart(b) \/ ~LengthAgrees(b) -> ParseError
      [] HasStart(b) /\ LengthAgrees(b) /\ FrameLength(b) = Modulus - 1 -> ParseHang
      [] OTHER -> IF DataStart(b) + FrameLength(b) <= Len(b) /\ DataAgrees(b)
                  THEN [parse |-> "data", data |-> FrameData(b)]
                  ELSE ParseError

\* PN532_CallFunction: is this the response to the command?  What is shorter
\* than its two leading bytes is compared with those of an ACK, and refused.
ResponseTo(command, data) ==
    Len(data) >= 2 /\ data[1] = Pn532ToHost /\ data[2] = command + 1

\* PN532_ReadPassiveTarget, once it has the response: one target, and a uid
\* that is not too long, which follows its length.  Bytes the response does not
\* have are whatever the buffer held; 0 stands for them.
OneTarget(data) == data[3] = 1 /\ data[8] <= MaxUidLength
ByteAt(data, i) == IF i <= Len(data) THEN data[i] ELSE 0

\* Mutant of UidOf: the copy starts at the length.
UidFromLength(data) == [i \in 1 .. data[8] |-> ByteAt(data, 7 + i)]

UidOf(data) == [i \in 1 .. data[8] |-> ByteAt(data, 8 + i)]

----------------------------------------------------------------------------
(* The chip, and the bus. *)

\* The chip's version, in four bytes.
VersionFound == Frame(<<Pn532ToHost, FirmwareCommand + 1, 2, 1, 6, 7>>)

\* That the chip was configured, and nothing more.
Configured == Frame(<<Pn532ToHost, SamCommand + 1>>)

\* One target, its number, its SENS_RES and SEL_RES, its uid.
TargetFound(uid) ==
    Frame(<<Pn532ToHost, ScanCommand + 1, 1, 1, 0, 4, 8, Len(uid)>> \o uid)

\* The chip did not understand the command.
SyntaxError == Frame(<<Modulus \div 2 - 1>>)

\* A frame as the host reads it: at most one byte of it is disturbed.
Noisy(frame) ==
    {frame} \cup {[frame EXCEPT ![i] = v] : i \in DOMAIN frame, v \in Bytes}
============================================================================
