# libopenpst in TLA+

libopenpst is a C++ library by which a program on a PC talks to a phone in one
of its service modes: Qualcomm's Sahara and streaming download boot protocols,
the diagnostic (QCDM) protocol with the embedded file system behind it, and
LG's LAF, each over a serial port, together with parsers for the files that are
sent. This directory models the library in TLA+, checks the models with TLC and
proves theorems about them with TLAPS.

The library is single-threaded and every call blocks. What is concurrent is the
phone: it answers late, restarts, reports errors, and the serial stream does not
keep the boundaries of what was sent. Nearly everything that can go wrong
is in the pairing of a read with the packet it gets, in buffers and members that
survive from one call to the next, and in loops whose end is computed from what
arrived.

## 1. The system

Paths are relative to `src/`. "Hard" is what a test would hardly reach.

| Component | State | Operations | Hard, and what makes it correct |
|---|---|---|---|
| **GenericSerial** `src/serial/generic_serial.cpp` | the port | open, close, read, write, flush, available; every exception of the serial library becomes `SerialError` | a read ends at its length or at its timeout, so it may return nothing or half a packet; the vector read appends; a `catch` above it for the serial library's own exceptions is never entered |
| **SaharaSerial** `src/qualcomm/sahara_serial.cpp` | the mode of the last hello, the first read request; in a call: the image, the amount sent, the result so far | readHello, sendHello, switchMode(AndHello), sendClientCommand, sendImage, readNextImageOffset, readMemory, sendDone, sendReset, close | an answer is recognised by its command word or not at all; the device must get the bytes it asked for, and neither side may wait on the other; results belong to their commands; a transfer ends |
| **Sahara packets** `include/qualcomm/sahara.h` | none | layouts, status codes | |
| **HdlcEncoder** `src/qualcomm/hdlc_encoder.cpp` | none | encode, decode, crc16 | decode inverts encode; a bad checksum, a trailing escape, an empty frame |
| **HdlcSerial** `src/qualcomm/hdlc_serial.cpp` | a line buffer | framed read and write over GenericSerial | a timeout inside a frame; a frame opened by a flag; the tail read as the next frame |
| **StreamingDloadSerial** `src/qualcomm/streaming_dload_serial.cpp` | the negotiated session (block sizes, sector size, open mode) | sendHello, sendUnlock, openMode, closeMode, readFlash, writeFlash, writePartitionTable, eraseFlash, sendReset, ... over HdlcSerial | log packets and late answers between request and answer; the sector arithmetic of the chunk loops: the data read is the data of the flash, what is written is written once and where it was meant to be |
| **QcdmSerial** `src/qualcomm/qcdm_serial.cpp` | one response buffer for all calls | getVersion, sendSpc, sendPassword, setPhoneMode, switchToDload, readNV, writeNV, peekNV, getErrorLog, vendor unlocks, ... over HdlcSerial; `clearErrorLog` is declared only | structs copied out of the buffer longer than the answer in it; answers known by their first byte; validation that cannot be turned off |
| **DmEfsManager** `src/qualcomm/dm_efs_manager.cpp` | none of its own: handles live in the phone | open, close, read, write, readDir, stat, rename, images, ... and whole files and trees built of them | handles left open on error paths, writes cut at 1024 bytes, late directory entries, requests whose length is that of a pointer |
| **EFS shell** `examples/efs.cpp` | its directory | ls, cd, get, put, rm | loops over read and write that must add up to the file |
| **MbnParser** `src/qualcomm/mbn_parser.cpp`, **GptParser** `src/util/gpt_parser.cpp`, **PartitionTxtReader** `src/lg/partition_txt_reader.cpp` | none between parses; in one, a stream that may have failed | parse | which part of the file is read for which flags and which header variant; sizes that wrap |
| **MathStringEvaluator** `src/util/math_string_evaluator.cpp` | two stacks that survive a call | evaluate | equals the value of the expression, whatever was evaluated before |
| **RawProgramXmlReader, SaharaXmlReader** `src/qualcomm/`, **StringHelper** `include/util/string_helper.h` | one evaluator for all entries and files; `errno`, which is the process's | parse | a number is that of its own attribute, cut to the width of its field; one that 64 bits do not hold never passes |
| **MeidConverter** `src/util/meid_converter.cpp` | none | convert; the four printed forms | zeros that are not printed; padding loops end |
| **LafSerial** `src/lg/laf_serial.cpp` | a static buffer that all objects share, for requests and answers; the port | enterLaf, sendHello, sendReset, sendPowerOff, getProperty, sendCommand | only sendCommand reads, whatever has come; an answer carries nothing that tells what it is for; the text returned is that of one answer, whole |
| **AkseedCalculator, AdbDeviceManager, hexdump, convert, protocol tables** | none | a digit computation, empty bodies, formatting, constants | nothing for a model checker |

How they interact: a program (see `examples/`) owns one client object and calls
its methods one after the other; QcdmSerial and StreamingDloadSerial extend
HdlcSerial, which extends GenericSerial, as SaharaSerial does; DmEfsManager
holds a reference to a QcdmSerial and sends its packets through it; the raw
program reader owns an evaluator, and both XML readers convert with StringHelper.
An exception leaves the method where it stands, with whatever was received still in the line;
the examples' catch blocks end the session. The hazards this gives rise to, at
their lines and with the properties that watch over them, are in `PROJECT.json`.

## 2. What is modelled

All rows but the last of the table, each in modules of its own. GenericSerial
has none: what its reads may do is in the line of each protocol.

### The Sahara session

| Module | What it is |
|---|---|
| `SaharaLink` | the packets, word by word; the serial line; `GenericSerial::read`; `isErrorResponse` and `isValidResponse` |
| `SaharaSerial` | the host: SaharaSerial and the program that calls it |
| `SaharaDevice` | the phone, from what the library presupposes of it (external) |
| `SaharaSystem` | the two joined; the specification and its properties |
| `SaharaInvariant` | `InStep`, the inductive invariant |
| `SaharaProofs` | the theorems |
| `MCSahara` | constants for TLC |

**State.** `line` is the port, `rx` the words received and not read, `toDevice`
the writes the phone has not handled. On the host's side `pc` is the read a call
blocks at, `threw` the exception that ended one, `sess` what the program knows
of the session (a program variable, it takes the place of the examples' control
flow); `mode`, `nextOffset`, `initialImage`, `totalSent`, `command`, `dataSize`
and `ret` are the members and locals of those names (`nextOffset` is the
request in the program's hands: the one sendHello found or the one sendImage
returned). On the device's side `phase` is where it is in the protocol, `asked`
the request it waits on, and `stored` is a history of what it asked for and
what it took for the answer.

**Actions.** A public method is one action that makes the call and its first
write and one `_Returns` action for every read at which it blocks; sendImage has
one more, `SendImage_Turn`, for its loop. Everything a method does between two
reads happens in one step: no other thread of the host could see it, and the
phone only sees the writes, of which there is at most one per step.

**What the line does.** The device's answers are streams of words: `rx` has no
packet boundaries. `ReadLengths(n)` says how a read of at most n words may end:
with n; with all there is (its timeout passed at the end of a packet); with
nothing when the device is silent or, under the fault `"late"`, merely slow;
under `"stall"` anywhere inside a packet. Every method reads the length its code
asks for, so sendHello's read may swallow more than its answer and sendDone's
leaves part of an error packet in the line. `FlushDiscards` says whether
`flush()` drops what was received; on POSIX systems the serial library only
drains its output, so both values are worth checking.

**The device** answers writes in order, one at a time. In the data phase it
takes whatever arrives for image data, because Sahara sends raw bytes there.
It may ask for any of `Wanted`: out of order, overlapping, past the end of the
file, for another image. It may answer with an error in the phases of
`ErrorPhases`, and restart, with (`"unplug"`) or without the port going away.

**Abstracted.** Of host packets the command and its one argument; image data by
image, offset and size; one error status of the forty; results of commands by
one word that names the command. Versions, serial numbers and the packet size
limits of the hello are carried and not used, as in the code.

### Reading memory

`SaharaMemory` models `readMemory`, whose loop depends on bytes and
on `available()` rather than on packets, against a device that answers requests
one after the other, in pieces of any size. `speed` says whether it always
answers before the host's poll and read give up (`"prompt"`), or may
be slower (`"slow"`): nothing in the loop waits for the answer, so a slow
device is asked again. The cells of memory contain their own addresses, and one
unit stands for the 16 bytes of a refusal.

### HDLC frames

`HdlcEncoder` has both overloads of `encode` and of `decode` as operators, over
any alphabet with a flag, an escape and a mask, and any checksum of two bytes.
The loops are folds that take one byte after the other. What the code reads past
the end of its data is the parameter `past`: a byte that may be anything.

`HdlcSerial` is a line between a host that writes and reads with these and a
device (external) that frames and unframes in the ordinary way. `toHost` and
`toDevice` are bytes. A read takes the bytes up to and with the first flag
(`ReadToFlag`), or fewer when its time is up (`ReadTimesOut`), does what the code
does with them, and leaves the result in `last`. `requests`, `taken` and
`answers` are histories. `keepsFlag` is whether `readline` returns the flag: the
serial library that `.gitmodules` names does, the code's `push_back` suggests a
library that does not. A decode of fewer bytes than a checksum computes it over
a length below zero, and so over all of memory: the program ends, outcome
`"crash"`.

`HdlcProofs` has the theorems: about one frame first, then about the line.
`FoldProofs`, on which they rest, has induction over numbers and sequences and what
a fold over a sequence is.

### Streaming download

| Module | What it is |
|---|---|
| `StreamingDload` | StreamingDloadSerial, the program that calls it, the flash programmer of the phone (external) |
| `FlashStore` | the abstract specification of readFlash and writeFlash: what a caller is promised |
| `DloadProofs` | the theorems |
| `MCStreamingDload` | constants for TLC |

**State.** `negotiated` and `maxBlock` are the members of `state`; `wanted` and
`opened` what the program asked to open and believes open; `loop` and `out` the
locals of readFlash(vector) or writeFlash, `file` and `written` those of
readFlash(stream), which calls the other; `pc` where a call is. `toDevice` and
`rx` are queues of packets. The device's side is `flash`, in units of which
`SectorSize` make a sector, the block size it prefers, and the mode it has open.
`job`, `status` and `result` are the state of `FlashStore`: what the program
asked for last, how it went, what it got.

**Actions.** The twelve methods that are one request and one answer are one
action each for the call and the return, with the table `Method` for what
differs: the request, the answer that is expected, and whether another one
throws or returns false. The loops have one action for each turn and one for
each answer. The session's state is changed where the code changes it: the
header of a hello is stored before the length is looked at, `close` clears the
block size too, which is not the value the constructor gives it.

**The program** calls the methods in any order, closes the port after a method
that failed, as `examples/streaming_dload_read_write.cpp` does, and ignores the
result of those in `Ignored`. A read that gets nothing ends the program, because
HdlcSerial decodes the flag it appended (see above), and never the call alone;
`TimesOut` is that. The program can be started again while the device still has
requests to handle.

**From HDLC** the module takes that packets arrive whole and in order, and the
constant `Trailers`: how much of checksum and flags a vector read may leave
behind a packet. `HdlcSerial` shows that with the serial library as it is this
is four bytes, always.

### Diagnostics: NV items and the embedded file system

| Module | What it is |
|---|---|
| `EfsPackets` | the fields of each request and answer of the file system, and their widths |
| `DiagPhone` | the phone (external): a tree of files, tables of open files, directories and images, NV items; `Serve` is what it does with one request |
| `DiagLine` | one request and the packet that is read after it, with the faults |
| `QcdmSerial` | the methods of QcdmSerial |
| `DmEfsManager` | sendCommand, and the methods of DmEfsManager that are one request without a handle |
| `DmEfsHandles` | its methods that take, use and give back handles; `read(path)` and both `readDir` request by request |
| `EfsShell` | the programs: the shell of `examples/efs.cpp`, and one that calls any method in any order |
| `DiagSystem` | all of it joined; the specification and its properties |
| `HandleTable` | the abstract specification of handles |
| `DiagInvariant` | the inductive invariant of `DiagSystem`, and its extensions to data and to listings |
| `DiagProofs`, `DiagDataProofs` | lemmas about one exchange, and the theorems about handles; those about data and listings |

**State.** `phone` is a record of all the phone has; `rx` the packets on their
way. `last` says what the last call was, how it ended (`"ok"`, `"zero"` for a
returned error, `"throws"`, `"dies"`, or `"running"`) and what it gave. `held` are the handles the program has,
with the path each was opened with; `call` the locals of a method of several
requests, between two of them; `cPath` is the shell's variable. `spotless` is a
ghost: no call has failed yet.

**One exchange.** All of these methods write a request and then take the next
packet, whichever it is. `Exchanges(req)` is what can come of that: the answer;
a log packet in front of it; a refusal by the file system; an error packet of
diag; an answer that comes after the read has given up; an answer of which the
read gets the first fields and the next read the rest. The answer left behind
is then read by the next call, so that every later call is one packet behind
until the port is reopened or the phone boots (`InStep`). A read that gets
nothing ends the program, as in `HdlcSerial`.

**What an answer is checked for** is different in each layer and kept apart in
the modules: QcdmSerial compares the first byte, or nothing for those methods
that pass command 0; DmEfsManager's `sendCommand` compares the subsystem
command and the size (`SendThrows`), then the method the error field, or not.
The size matters: `getDeviceInfo`, `access` and their likes give a buffer that
their answer does not fit. Seventeen methods send `sizeof` of a pointer;
`HalfRequest` cuts their path accordingly, by the widths of the fields before
it. Three pass their request as the buffer for the answer (`BareCall`).

**Programs.** One calls any method with any argument of small sets, the invalid
ones included, and goes on after exceptions. The other is the shell, whose loops
are stepped through, and which an exception ends. Between calls a program may
end and another begin; the phone may boot, which closes everything.

### Tools: expressions, files, identities, LAF

`MathString` is the evaluator character by character, with its two stacks as
variables that survive the call. A float is a rational; whole results are
rounded to `Mantissa`, as a float rounds them to 24 bits. `MathMeaning` has the
reference, `WellFormed` and `Meaning`, a recursive reading of the expression that looks
for the operator applied last, and the properties that compare with it.

`XmlReaders` reads attribute by attribute, in files of either reader, with one
evaluator for all that a raw program reader ever reads and the process's
`errno`, which `toInt` looks at and does not clear, and which may be set
before anything is read. `toInt` reads 64 bits (`LongRange`) and casts them to what the field is
(`Cast`): an `int` of 32 bits (`IntRange`) for `num_partition_sectors` and
`physical_partition_number`, a `uint32_t` for an image's id, `size_t` or `off_t` for
the others. A number between 2^32 and 2^64 is cut off in the first three, a
negative one in a `size_t` wraps; neither is an error to the code.

`ImageFiles` has the three parsers of binary files. A file is its size and the
numbers in its headers, what is read of it is where a piece starts and how many
bytes came. A stream that has read short neither seeks nor reads afterwards; a
header's 32 bits become an `int`, and so does the position that the GPT parser
asks for (`Position`); a size below zero wraps.

`MeidConverter` converts a string of digits, whose length decides which of the
four forms it is, prints the result in one of them as `operator<<` does, and
converts again what was printed. `printed` is a history: the form that was.

`LafSerial` has what the phone says as a stream of units without packet
boundaries. An answer may come at once, late by any number of calls, or never,
and a read takes as much of the stream as has come, be it part of an answer or
several, over the request that is still in the buffer. What a unit is part of is a
history, so that a property can say whose answer it is; the code sees the fields alone.
Header fields are two units, one that says what the packet is and one with its length.

`ToolProofs` has the theorems about `ImageFiles`, `LafSerial`, `XmlReaders` and
`MeidConverter`.

`Library` puts these and `DiagSystem` side by side. They share nothing, and
`part` chooses the one a behaviour is about; `errno` is left set at the beginning
only where it is looked at, in the readers' behaviours.

## 3. What the runs check

| Run | Question and answer |
|---|---|
| `sahara_safety` | Late answers, errors, one restart, a port that goes with it, a program that may abort at any point, boots in image or in memory debug mode, mode switches, two client commands with results of one word or three. The invariants hold. |
| `sahara_fair` | No restart, but errors in every phase of a transfer, late answers, and a program that may also call readNextImageOffset: every request the program gets is genuine and every transfer ends. |
| `sahara_example` | Violated: the call sequence of `examples/sahara_send_image.cpp` leaves host and device waiting on each other without any fault. |
| `sahara_restart` | Violated: the hello of a device that restarted passes for a read request. |
| `sahara_retry` | Violated: sendHello's handler for a device that resets itself is never entered. |
| `sahara_memory` | Ranges of 1 to 5 units in requests of at most 2, prompt and slow devices, refusals of the first and second request. The properties hold. |
| `sahara_memory_copy` | Violated: with more than one read, readMemory returns earlier data again. |
| `hdlc` | Payloads of one and two bytes over an alphabet of six, two frames on the line, in either direction, reads that time out. The properties hold for writes and the pointer read. |
| `hdlc_vector` | Violated: the vector read does not take the checksum and the flags off. |
| `dload` | Everything StreamingDloadSerial offers, with a log packet, late answers and restarts of the program, error packets, truncated hellos. The properties hold, `FlashStore` is implemented. |
| `library` | Diagnostics against a phone with one fault of any kind, in programs of up to three calls, or in the shell; the evaluator, the readers, the parsers, the converter and LAF on all their inputs. The properties hold, `HandleTable` is implemented. |
| `dload_sector` | Violated: with a sector larger than a chunk, writeFlash writes all chunks to one place. |

The properties of the session:

- `ImageIntact`: what the device took for image data is the part of the image
  it had asked for. It relates every write ever made to the request it was made
  for, through the loop in sendImage and the requests that pass between
  sendImage and its caller.
- `NoMutualWait`: while a call blocks on an empty line there is something for
  the device to do, or it has stopped at an error.
- `DoneIsAcknowledged`, `ResultIsOfCommand`: what sendDone and sendClientCommand
  report is what happened, and a result is whole.
- `RequestIsGenuine`, an action property: the program never acts on a request
  that was not made, nor on an end of the transfer that was not reached.
- `TransferEnds`, liveness.
- `InStep`, the invariant of the proofs, is checked as well.

Of readMemory:

- `AsksInRange`: no address outside of the range is asked for; for a slow device
  only when the range takes several requests (a range that fits one is asked for
  whole each time, so an answer in two parts leads to a request past its end).
- `EndsWithAsked`: the returned data ends with the memory asked for, in order.
  This is what is left of the promise of the header file: see `MemoryIsRead`.
- `FirstRefusalThrows`, `CallEnds`.

Of the frames:

- `RequestsArrive`: requests written back to back by either overload come out at
  the device one by one and unchanged, whatever of them looks like a flag, an
  escape, or has a checksum that does.
- `PointerReadDelivers`: a pointer read of a whole frame gives the payload of the
  answer whose turn it is, whether or not `readline` returns the flag, and again
  after reads that cut an answer in two.

Of streaming download:

- `OpenedIsOpen`: the mode the program believes open is the device's, although
  answers carry nothing that tells which request they are for. It rests on the
  failure of openMode ending the session: for a program that tries openMode again
  on the same port (`Ignored` with `"openMode"`) TLC refutes it, by a log packet
  in front of the first answer. `setSecurityMode`, whose result the examples
  ignore, is in `Ignored`.
- `StoreKept`: `FlashStore` is implemented. A read returns what the flash holds
  there, a write that returns has happened, no other unit of the flash changes,
  and no write happens but in its time or late, after a failure: never in
  the middle of the next job, because the next job comes after a hello, and the
  hello's answer is not that of a late write.
- `CallsEnd`, liveness.

Of diagnostics:

- `HandlesRefine`: `HandleTable` is implemented. Answers lost, late or read by
  another call of the kind do not give a program a handle that is not open on
  the phone, nor take from it one that it goes on using. It rests on a failed
  close not being tried again, on `sendCommand` comparing the subsystem command
  (without it the mutant finds the answer to another method taken for a handle),
  and on the answer to an opening method not being cut: cut before the handle it
  reads as handle 0, which is a good one for a file. So `Cuttable` has reads,
  writes and listings only.
- `HandlesMeanFiles`: while the line is in step, a handle is of the file it was
  opened for. Out of step it need not be: after a log packet in front of its answer
  an `open` throws, and the next one gets the file of the first.
- `ReturnsLeaveNothing`: while no call fails (`spotless`) nothing is left open.
  The converse is the code's weakness: `read(path)` leaks its handle when
  fstat, read or close fails, or the file is empty.
- `ListedDirsClosed`: a `readDir` that ends has closed its directory, on every
  path, unless the phone refused a request of it or has left diag mode.
- `ListingIsWhole`, `GotIsWhole`, `ReadPathIsPrefix`, `PutIsWritten`: a listing,
  a get, a read, a put that returns is what the phone's tree says, also with
  something late, cut or unasked on the line: it is noticed by the requests that
  follow, of which the close is the last. The run has one such fault, and two
  leave the four properties true; they do not survive any number. With a line as many
  packets behind as a method has requests, every answer is an older one
  of the same kind: after four log packets, `read(b)` can take the four answers to
  an open, fstat, read and close of another file, and return that file's data
  (TLC finds it with `MaxFaults = 4`). A listing in which the phone refused
  a request is excepted: readDir does not look at the error of an entry, and
  takes it for the end. `PutIsWritten` speaks of the beginning of the remote
  file, which the shell does not truncate.
- `NvReadIsPhones`: a readNV in step returns the value of the item asked for;
  out of step, a value that some item has or had, never bytes of another
  packet.

Of the tools:

- `EvaluatesRight`: `evaluate` gives an expression its `Meaning`. Its conditions
  are in the formula: nothing but parentheses follows a closing one (an operator stays
  on the stack there), a float holds all the values on the way (`Fits`), and no
  earlier call that threw has left an operator (`fresh`), which would be applied to the next
  expression. Values that an earlier call left are not excepted: they spoil nothing.
- `EntriesAreTheirAttributes`: a number of an entry is what its own attribute says,
  as much of it as the field holds (`Stores`), through the evaluator and `errno`
  that all entries share. What an attribute says (`Said`) is a decimal number, or in a raw
  program a sum, difference, product or quotient. A power, a remainder and a number in
  parentheses are not calculated unless one of `+ - * /` is with them (`RequiresEvaluation`), nor is any
  expression in a sahara_config file: of these the property says nothing, and the run has some of
  each. Two more exceptions are `START_BYTE_HEX`, read as hexadecimal
  whatever it is, and the result 2^31, of which a processor makes one `int` or another.
- `RangeNeverPasses`: no entry is returned with a number made of one that 64 bits
  do not hold, although of an expression nobody looks at the error where it arises.
  It does not say that the number fits its field: see `Cast`.
- `SegmentsFollow`: the segments of an image that lies in its file are those
  asked for, one behind the other, when the file is shorter than an `int` counts; the
  offsets are kept in one. `EntriesAreWhole`: every entry returned of a
  partition table is bytes of the file, whatever flags the caller
  passes and whatever the header says, when an `int` holds where the entries begin
  (`BelowInt`). Beyond that it is false: `gpt_parser.cpp:85` casts the position, a
  negative one makes the entries seem to need less than there is, and entries
  are returned of which nothing was read. In the run, without `BelowInt`, a table at 30 in a file of
  44 is a counterexample, its entries at 38 where an `int` ends at 32.
- `MeidRoundTrips`: a MEID printed in a base and taken for a MEID in that base is
  the same. When its parts begin with zeros, what is printed is too short: it is
  refused, or taken for something else, or `getMeidDec` never ends (`Endless`).
  Something else may be a MEID too: a decimal one is ten digits and up to eight, and
  with four in the second part it has the fourteen of a hexadecimal one and is
  converted as that. So `printed` is in the property. So is that the second part fits
  its hexadecimal digits: eight decimal digits may be more than six hexadecimal ones.
- `LafTextIsAnswers`: an answer that a sendCommand reads first and whole is
  returned as the phone said it, with nothing in it of the request or the older answers
  in whose place it was read, nor of the answers read behind it. That it is the answer to this command
  is not promised and not so: nothing empties the line, and the calls that
  only write leave their answers on it.

**Bounds.** `MaxRequests` (read requests per behaviour): two make a host that
goes from one request to the next, also to another image, and three one that
takes up an image again. `MaxRestarts` 1: after a restart only the weaker
conjuncts are claimed, and a second adds nothing to them. The files have 3 and
1025 units, the second so that the words of a hello, read as a request, lie
inside it and the confusion is not hidden by sendImage's check of the size. In
`SaharaMemory` the greatest request is 2 and ranges go up to 5: shorter than a
request, exactly one, several with a short last one and with a whole one.
`MaxUnanswered` 2 caps the writes a device has not taken, which a slow device
would let grow without end. In `HdlcSerial` an alphabet of six bytes is the
smallest that is closed under the mask and has a pair without flag and escape;
the checksum takes every value; payloads of two bytes hold every pair of them,
and the decoders look at no more than two bytes at a time; two frames are the
least that can be mistaken for one another. Buffers of 5 and 12 bytes are ones
that lines do and do not fit. In `StreamingDload` a sector is 2 units, a chunk 2
or 4 and a transfer 1 or 5, so that there are transfers of less than a chunk, of
several with a last one that is short, and chunks of one and of two sectors; one
log packet (`MaxLogs`), which may fall between any two packets; one request that
the device has yet to handle when the program starts again (`MaxLate`).
In `library` a program makes three calls (`MaxCalls`), which is an open, a use and a close, or a
call that leaves an answer behind, one that reads it and one more; within a call
any number of requests; the shell's commands count as calls. One fault; with two,
and with all the paths of the tree and its files, the properties hold as well. The phone's tree is a file of three units, a
directory, one inside it and an empty file in that, so that a listing goes down two
levels; one read gives two units and one write takes one, so that each needs
several; two files may be open. Expressions are all those of up to three of four
characters, three numbers with any two of four operators, and chosen longer ones;
two are evaluated in a row, and a reader makes five steps, each an attribute, or the
start or the end of a file or an entry: an entry of two attributes is among them, two entries of
one, and an entry of a second file behind an expression that threw in the first (with
six steps, which add an entry behind one of two, the properties hold as well). A mantissa of 16
makes 17 the first number that a float does not hold, `LongRange` 1024 and
`IntRange` 64 stand for 2^64 and 2^32, with numbers and results on either side of both, of
either sign. Files and headers are
scaled to a few bytes per header and segment, with sizes on either side of every
comparison, and `Word` 64 to make sums of 32 bits wrap; an `int` then ends at 32, and
tables begin before and behind it. The bases 16 and
10 of an identity are 4 and 3, with one to four digits in a part: all strings of
each form are converted. As in the code the first part's digits hold any part, the
second part of a decimal MEID may be too large for the hexadecimal one, and a decimal
MEID without the zeros can have as many digits as a hexadecimal one. Three LAF
calls, with texts of nothing and of two units in a buffer for four; up to eight units are unread
(`LafBacklog`), which is two answers with a text or four without.
Deadlock is not checked: a program may stop after
any call, and a device that has stopped at an error stays there.

**Fairness.** `FairSpec` of the session: the device takes its next step
(`WF DeviceStep`), a blocked read ends (`WF HostStep`: every read of
GenericSerial has a timeout), and the program makes its next call
(`WF SendsImages`), as the examples do. Nothing is assumed of restarts, of
close and of sendReset. Of `SaharaMemory`: the loop runs on and the device
answers; against a device that falls silent readMemory never ends, for it
repeats its request for ever. Of `StreamingDload`: a call goes on
(`WF HostStep`) and the device answers what it is sent (`WF DeviceStep`); the
program need not call anything. `HdlcSerial` and
`Library` have no liveness property, and so no fairness.

**Conditions.** The properties of streaming download hold when the sector divides
the chunk (else `dload_sector`), the block sizes a device prefers fit the 16 bits
of a read request's length (else a length of 0 is asked for, and `CallsEnd`
fails), and vector reads leave no trailer (`Trailers = {0}`: with `{1}`, a
part of a sector, TLC finds the garbage between the chunks of a read, and
`StoreKept` fails in its part about reads; see `hdlc_vector`). `OpenedIsOpen` and
`StoreKept` also need that at most one request of earlier sessions is unhandled
when the port is opened: `MaxLate` is more than a bound. With two TLC finds this.
A first session ends while its hello is unhandled. A second takes the answer to
that hello for its own's, asks to open one mode and ends, with its own hello and
that request unhandled. A third takes the second's HelloResponse, asks for another mode and is
told that a mode was opened, by the answer to the second's request. Opening a
port does not empty the line, and an answer does not say what it answers, so
nothing in the library prevents it; a device that answers within the host's timeout
is what makes it rare. And `OpenedIsOpen` needs a program that heeds `openMode`'s
false (`Ignored`). Those of
`library` are named with each property above; they are in the formulas
themselves, but for `Cuttable`.

**Disagreements found**, each the subject of a run that TLC must find violated:

1. `examples/sahara_send_image.cpp:101` waits for a request that sendHello
   already consumed (`sahara_example`).
2. `sahara_serial.cpp:463`: a comment says that an answer which is neither an
   error nor a read request is a success response; any packet is accepted, a
   restarted device's hello among them (`sahara_restart`).
3. `sahara_serial.cpp:87`: the retry for a device that resets itself catches an
   exception that cannot arrive there (`sahara_retry`).
4. `sahara_serial.cpp:355`: `buffer.empty()` for `buffer.clear()`
   (`sahara_memory_copy`).
5. `hdlc_serial.cpp:170` and `hdlc_encoder.cpp:160`: two flags where the decoder
   expects one or none (`hdlc_vector`).
6. `streaming_dload_serial.cpp:521`: the address advances by 0 when the sector is
   larger than the chunk (`dload_sector`).

## 4. What is proved

Each theorem holds for every value of the constants that its assumptions admit:
files, sets of commands, sizes, bounds, and any number of faults. The modules are
checked from nothing in minutes each.

| Theorem | Module | States |
|---|---|---|
| `TypeCorrect` | `SaharaProofs` | `Spec => []TypeOK`, with no assumption |
| `StaysInStep` | | `Spec => []InStep` |
| `TransferIntact` | | `Spec => []ImageIntact` |
| `DoneAcknowledged` | | `Spec => []DoneIsAcknowledged` |
| `ResultWhole` | | `Spec => []ResultIsOfCommand` |
| `RequestGenuine` | | `Spec => RequestIsGenuine`, without restarts |
| `NeverMutualWait` | | `Spec => []NoMutualWait`, without restarts and for a program that does not call readNextImageOffset after sendHello |
| `MemoryTypeCorrect` | `SaharaMemoryProofs` | `Spec => []TypeOK` of `SaharaMemory` |
| `AsksOnlyInRange` | | `Spec => []AsksInRange`, for every range, maximum, set of refusals and splitting of the answers |
| `MemoryEndsWithAsked` | | `Spec => []EndsWithAsked`, for the same |
| `FirstRefusalIsReported` | | `Spec => []FirstRefusalThrows`, for the same |
| `DloadTypeCorrect` | `DloadProofs` | `Spec => []TypeOK` of `StreamingDload`, with no assumption |
| `SessionsAreApart` | | `Spec => []SessionInv`, with `OneLate` and `HeedsOpening` |
| `OpenedIsOpenHolds` | | `Spec => []OpenedIsOpen`, with the same |
| `StoreInStep` | | `Spec => []StoreInv`, with the same and `SizesFit` |
| `StoreKeptHolds` | | `Spec => StoreKept`: readFlash and writeFlash implement `FlashStore`, with the same |
| `DiagInvariantHolds` | `DiagProofs` | `Spec => []IInv` of `DiagSystem`, with `OpensComeWhole`, as all of these |
| `DiagTypeCorrect` | | `Spec => []TypeOK` |
| `HandlesMeanFilesHolds` | | `Spec => []HandlesMeanFiles` |
| `ReturnsLeaveNothingHolds` | | `Spec => []ReturnsLeaveNothing` |
| `NvReadIsPhonesHolds` | | `Spec => []NvReadIsPhones` |
| `ListedDirsClosedHolds` | | `Spec => []ListedDirsClosed` |
| `HandlesRefineHolds` | | `Spec => HandlesRefine`: DmEfsManager and the shell implement `HandleTable` |
| `HeldHandlesAreOpen` | | so no handle that a program has is closed on the phone |
| `HandlesHeldAreOpen` | | `Spec => []HeldIsOpen` of `HandleTable`, with no assumption |
| `DataHolds` | `DiagDataProofs` | `Spec => []DataOK`, with `OpensComeWhole` |
| `ReadPathIsPrefixHolds` | | `Spec => []ReadPathIsPrefix`, with that and `FewLogs(3)` |
| `GotIsWholeHolds` | | `Spec => []GotIsWhole`, with that and `FewLogs(2)` |
| `PutIsWrittenHolds` | | `Spec => []PutIsWritten`, with that and `FewLogs(2)`, or `FewLogs(1)` when a local file may be empty |
| `NamesKeptHolds` | | `Spec => []NamesKept`, with `OpensComeWhole` |
| `ListingIsWholeHolds` | | `Spec => []ListingIsWhole`, with that and `FewLogs(2)` |
| `RequestsArriveHolds` | `HdlcProofs` | `Spec => []RequestsArrive` of `HdlcSerial`, with no assumption |
| `TypeOKHolds` | | `Spec => []TypeOK`, with `DeviceOpens = FALSE` |
| `PointerReadDeliversHolds` | | `Spec => []PointerReadDelivers`, with the same |
| `EntriesAreWholeHolds` | `ToolProofs` | `[]EntriesAreWhole` of `ImageFiles`, with `ImageAssumption` |
| `SegmentsFollowHolds` | | `[]SegmentsFollow`, with the same |
| `LafTextIsAnswersHolds` | | `[]LafTextIsAnswers` of `LafSerial`, with `LafAssumption` |
| `RangeNeverPassesHolds` | | `[]RangeNeverPasses` of `XmlReaders`, with `ReadersAssumption` and `NamesAssumption` |
| `MeidRoundTripsHolds` | | `[]MeidRoundTrips` of `MeidConverter`, with no assumption |

### Assumptions

Besides the types of the constants, which are named `ASSUME`s in the modules that
declare them (`PhoneAssumption`, `CallsAssumption`, `ImageAssumption`,
`SizesAssumption` and so on) and which TLC evaluates in every run:

**Session.** All but the first assume `StepAssumption`, whose three parts are each
necessary; without it TLC finds counterexamples within seconds:

- no `"stall"`: a read does not time out inside a packet. A request cut after
  its image number is offset 0 and size 0 to the host: the mark of the end.
- a `"careful"` program, which goes on with sendImage while the device asks for
  more of the same image. sendImage returns as soon as the sizes sent add up to
  the file's, which overlapping requests reach early; a program that then sends
  Done sends it into the data phase.
- no `"exec"` among `ErrorPhases`: sendClientCommand validates the address of
  its vector instead of the bytes it received, so an error packet in place of
  the data becomes part of the result.

`MaxRestarts = 0` in `RequestGenuine` and `NeverMutualWait` is what the run
`sahara_restart` shows to be needed; and `"rereads"` is what `sahara_example` shows.

**Streaming download.** `OneLate` (`MaxLate <= 1`): at most one request is
unhandled when the port is opened; `HeedsOpening`: openMode's and openMultiImage's
false is not ignored. Section 3 has the counterexample without them.
`SizesFit`: the chunks are whole sectors (the run `dload_sector` is
the contrary), a request's length can hold them, and packets are read without a
trailer. `StoreKeptHolds` says nothing of a library whose vector reads leave four
bytes behind each packet; that they do is what `hdlc_vector` shows.

**HDLC.** `AlphabetAssumption`: masking a byte twice gives the byte, and a flag or
an escape that is masked is neither. `FramesAssumption`: payloads are bytes and not empty,
and a checksum is two bytes. `DeviceOpens = FALSE` for what the host
reads: a device that opens its frames with a flag makes the first line
a flag alone, over which the program ends (`hdlc_serial.cpp:105` in the hazards).
What the device gets, `RequestsArrive`, needs nothing of it.

**Diagnostics.** `OpensComeWhole`: the answers to open and opendir are not cut. A
cut one reads as handle 0, which may be another's. `FewLogs(n)`, for the theorems
about data: when log packets are among the faults, there are at most n faults in
a run. A late or cut answer puts the line one packet behind, and no more; each log packet puts it
behind by one more. With as many packets behind as a method has
requests of the kind, every answer it reads may be an earlier method's, and
nothing tells. `PhoneAssumption` and `DatasAssumption` say that the contents of files are
sequences of numbers. `TreeAssumption`: the tree that the phone begins with is one
(what is in a directory has that directory in it), and no name is empty or a slash;
`PathsAssumption`: the paths that a program gives are names divided by slashes.

**Images.** `ImageAssumption`: the numbers of a header are of 32 bits, and no
header is longer than `MaxHeader`. Where an `int` is too short, `Word` / 2 (2 GiB) and above, the two properties
make no claim, in their own formulas.

**LAF.** `LafAssumption`: a command with the zero behind it, and the text of an
answer, fit the buffer (`LAF_MAX_DATA_SIZE`, `laf.h:37`); the code looks at neither.

**Readers and identities.** `ReadersAssumption`: values are sequences of characters, and
the range of a long is a multiple of an int's. `NamesAssumption`: the attributes of
each reader are those it looks at and others, not the other reader's.
`MeidAssumption`: bases are above 1, and no number that a part can hold is printed with
more digits than the first part of a MEID has: 2^32 - 1 has eight hexadecimal digits and
ten decimal ones, as the parts do.

### The arguments

**The session of Sahara.** `TypeCorrect` needs one strengthening, that a transfer under
way is of an image the program has a file for (`ImageChosen`), so that
`FileSize[initialImage]` means something. The other properties are not
inductive by any strengthening of their own: that an answer belongs to the call
that reads it depends on nothing else being in the line, which depends on all
that was said before. `InStep` says that the two sides exchange a single token:
a write under way, or an answer under way, or the request in the program's
hands, never two; and for each point at which the program may be, which token
it is and what phase the device is in. It is proved action by action
(one lemma for each). The safety properties follow from it,
`ImageIntact` as an invariant of its own, because the history it speaks of is
extended by the device's step, and `RequestIsGenuine` from the steps that
change `nextOffset`. After a restart the host's belief is wrong, so `InStep` is
claimed until then, as the properties that rest on it are.

**Reading memory.** `AsksOnlyInRange` has two halves. For a range of several requests the address
and size of each request are computed from how much is left, and nothing more is
needed. A range that fits one request is asked for whole each time, so there the
proof is that a prompt device is asked once: `RequestsInStep` follows the one
request to the device and its answer back, whatever pieces it comes in.
`EndsWithAsked` is about what was read: until a refusal is met, the buffer is the
memory from the range's beginning on, as long as what was read, and what is on its way
continues it. A refusal met later is left in the buffer, which is why the property speaks of
results without one; one met first is all there is in the buffer, and throws.

**Streaming download.** An answer names no request, so `OpenedIsOpen` depends on
all that is in the line. `SessionInv` has four parts. While a session is being
negotiated, what an earlier one left behind is the first thing the host will hear,
but for logs (`StaleFirst`), so that the hello fails over it, unless it is the
answer to a hello: this is where a second such request would spoil it. Once
negotiated, what is in the line is harmless (`Mild`: its answer is checked for no
more than being there, or its failure ends nothing) or the running call's own and last
(`OwnLast`). What the program believes open is open and no request to close it is under way
(`ModeKept`). `Calm` says where a call may be. On it rests
`StoreInv`: the locals of the loops count what the vector, the stream and the flash hold
(`FileProgress`, `ReadProgress`, `WriteProgress`), and the one chunk under way is
the one the loop stands at (`ReadUnderWay`, `WriteUnderWay`, `PendingWrites`). The arithmetic
is that of sectors: a chunk of whole sectors moves the LBA by what it moves
the count (`blocks * SectorSize = total`), and the one that is not whole is the last.
With both, each step is one of `FlashStore` or none (`StepRefines`).

**Diagnostics.** After any fault every call reads its predecessor's answer, so the
invariant speaks of all answers on the line: one that grants a handle
grants one that is open on the phone, that no program has, and that no other answer
grants (`Waiting`). With this it is inductive whether or not the line is in step;
what is claimed of files and of leaks is claimed while it is. There are some sixty
methods and few shapes of steps: one exchange with a request that has no handle, one that
opens, one that uses or gives back a handle, an end. `DiagProofs` proves what
an exchange does to phone and line, that each shape keeps `IInv`
and maps to a step of `HandleTable` or none, then that each method is of a shape.
`ReturnsLeaveNothing` needs in addition that a spotless line has no answer
left on it, but while a method is on its way out (`Aborting`). `ListedDirsClosed`
is inductive with two facts beside `IInv` (`ListingOK`): the phone counts
directories from 1, so that handle 0, which a listing has before it has opened one,
is nobody's; and the locals say whether one was opened. A close is served, refused, or asked
of a phone that has left diag mode (`CloseServed`), however late its answer is.

`DataOK` adds to `IInv` what the methods have of their files. A method that
begins while the line is in step and loses nothing has, after each request,
the first bytes of the phone's file (`SubSeq(OpenData, 1, n)`), or the phone's file has what
was put so far over what it had (`Overlaid`). One that begins with the line behind is
*doomed* (`DoomedBy`): one of its remaining requests is given the answer of an open,
its own included, or a packet that is no answer, and throws, or finds the line empty and the phone gone,
and the program ends. `FewLogs` bounds how many it can read before that. The proof is
one lemma for each request of `read(path)`, get and put, in step and doomed.

`ListingIsWhole` is about many directories, in an order that the phone gives. Its
invariant (`Covers`) is a balance: what is to be listed is what the listing has
(`Had`) and what is still ahead of it (`Ahead`): the entries of the directory it is
in that it has not had, all that is below those, and all that is below the directories it
has put off (`Pending`). Opening a directory turns what is below it into entries and what is below
the entries (`OneBelow`); an entry that comes is moved from one side to the other, and when
it is a directory, what is below it moves to those put off; with nothing ahead the
balance is the property. `OneBelow` is where the phone's tree must be one, and
every request of the model must keep it so (`NamesKept`, `TreeOK`): no directory is
removed with something in it, nothing is made where there is none. One thing upsets the
balance: the code makes the path of a subdirectory by adding the name to the path it was
given, with a slash behind the name and none before it, so that below `"/a"`, given without its last
slash, the path of `b` is `"/ab/"`. In the model a name is one letter, so such a path is no
directory's (`Missing`), its opening is refused and the listing throws, or `refused` excepts it.

**Folds.** tlapm cannot instantiate the library's
induction, whose hypothesis is an operator; `NumbersInduct`, `NumbersInductFully` and
`SequencesInduct` state it with the set of those for which a thing holds, from the
well-foundedness of `<`. A fold is then equal to the last step of a run along the sequence
(`FoldExists` and what follows it), and a property of it an invariant of that run.

**HDLC.** encode and decode are folds over the bytes. `StuffedUnescapes`: decode
gives back what was encoded, whatever the bytes, and the body of a frame has no flag. The line is the frames of the payloads
under way, of which the first may have been cut by a read whose time was up
(`ReadsInv`), so a read up to the first flag takes exactly one of them; on the way to the device it is
the same with the frames of the requests (`RequestsInv`).

**Handles.** `HeldIsOpen` is inductive as it stands; the lemma for the step has one
case for each action. `HandlesRefineHolds` carries it over to DmEfsManager.

**Tools.** `EntriesAreWhole` follows from what one read does to a stream
(`After`, `Here`): one that came whole moved it by its size, and one that did not fails all later
ones. `SegmentsFollow` takes the three segments
in turn: what is asked for of an image that lies in its file is read whole, and
leaves the stream where the next seek works, for offsets that an `int` can hold; and below
`BelowInt` the position that the GPT parser is told is where it stands.
`LafTextIsAnswers` rests on what the stream is (`StreamOK`): behind the beginning of an answer
is all of it, unit for unit. An answer at its end and a read from its front
keep this, wherever the read stops, so what is read first and whole is one answer's (`TextRead`).

`RangeNeverPasses` rests on `errno` going one way. A number too long leaves it set, in the
conversion itself or, of an expression, in one before it, and toInt then throws the
entry away; so an attribute that is kept was in range (`ValueKept`), and so are all those
kept so far (`Kept`). `MeidRoundTrips` is about numerals.
`Shown` is a recursive function, whose CHOOSE must be shown to have a choice (`ShowsExist`,
`ShowsAgree`, `ShownIs`). Then the numeral of what is printed of a number is the
number (`ShownTyped`), and a smaller number is not printed longer (`ShownGrows`), so no part
is longer than the first part's digits; as what is printed has the length of the
form, the cut falls between the parts (`ReadBack`).

All of these are of the components' own steps: `Library`, where they run, interleaves them with
others that do not touch their variables, and cannot hold a theorem, since it reaches
`MathMeaning`.

## 5. What is only checked, and what is not modelled

- `TransferEnds`, `CallEnds` and `CallsEnd` are liveness under fairness, out of the prover's
  reach, and checked by TLC.
- `EvaluatesRight` and `EntriesAreTheirAttributes` have a recursive reference
  (`Meaning`), which no theorem can reach.
- `HandleTable` and the theorems of `DiagProofs` are about files and directories; image
  handles are excepted, see below.
- Frames read with `DeviceOpens` (a device that opens its frames with a flag)
  are in the model and in no run: the first read ends the program. The codec handles
  such frames (`hdlc_encoder.cpp:88` and `:153`, and those of `tests/hdlc_test.cpp:15` are
  some); which kind the devices send, the repository does not say.
- The status in the answer to openMultiImage, which the code does not look at,
  is not among what the device says; the contents of log packets, errors and
  partition tables are left out.
- The `"stall"` fault and `"exec"` errors are in the model and in no run: the
  properties fail with them, and nothing in the repository promises otherwise.
- The client commands' names, the formatting of modes and errors, and the
  overloads that write to a file are left out.
- Images of the file system (`openFilesystemImage` and its likes) are modelled
  and left out of `HandlesRefine` and `HandlesMeanFiles`: readFilesystemImage
  closes the image behind its caller's back, and ends the program on an error.
- Names of files of the phone are single letters, two of which are never a name.
  A phone with a directory `ab` beside `a` has, for the code of `readDir("/a", true)`, the entries
  of `/ab/` below the `b` of `/a` (`dm_efs_manager.cpp:682`); `ListingIsWhole` is of
  phones on which no two names together are a third, or of paths that end with a slash.
- Of the file system the modes, times and counts that an answer carries, and of
  QcdmSerial the layout of versions and of the vendor packets, are left out. So is the
  ESN that a hash makes of a MEID: `calculatePesn` (`meid_converter.cpp:90-95`) puts
its bytes, two digits each, into an array of seven, and a hexadecimal form of fifteen digits
writes an eighth behind it; what that does is undefined, and no action has it.
- Of floats, those that are not whole are exact, exponents are not negative, and
  there is no infinity: an expression with a value beyond `LongRange` is evaluated, and
  `Fits` excepts it from the properties, as it does one whose power
  sets `errno` by being too great for a float.
- readFilesystemImage reads the answer to a close as one to a read: an error there ends the
  program, or, where its `errno` lies over another field, passes for an answer with data.
  The model has both; no property depends on it.
- Methods that are declared and have no body: QcdmSerial's `clearErrorLog` and a
  number of DmEfsManager's.
- AdbDeviceManager: `sendCommand` has no body, so every list is empty.
  AkseedCalculator: one computation on digits, without state. `hexdump`,
  `convert`: formatting and byte order. The protocol tables, of which `dm_nv.h`
  is a third of all lines of the repository: enumerations and layouts that no
  code uses.

## 6. Plan

In this order; each step is a set of modules, its runs, then its proofs.

1. **Sahara session**: done. Left: an abstract `ImageTransfer` (a device gets
   parts of files, in the order it asks for them, until it is satisfied) that
   `SaharaSystem` implements under a refinement mapping, checked, then proved
   from `InStep`.
2. **Sahara memory**: done, all its safety properties proved.
3. **StreamingDload**: done, all its safety properties and its refinement proved.
4. **HdlcEncoder, HdlcSerial**: done, all its properties proved.
5. **QcdmSerial, DmEfsManager**: handles, NV items, the refinement of
   `HandleTable`, and the data of reads, gets, puts and listings: done, all
   its properties proved.
6. **Evaluator and readers**: checked; `RangeNeverPasses` proved. The other two
   are out of reach (the recursive reference); what could be proved is that the
   stacks are empty after a well-formed expression on empty stacks.
7. **ImageFiles, MeidConverter, LafSerial**: done, all their properties proved.

Runs are few on purpose: one for each question, with all the properties that
share its bounds. The parts of `library` share no state, and one run explores
them side by side.
