------------------------------ MODULE Flasher -------------------------------
(***************************************************************************)
(* esp_rcp_update flashing the radio co-processor with esp-serial-flasher: *)
(* connect, detect the chip and its flash, write the image block by block, *)
(* verify it.  Every command is one exchange on a serial line that may     *)
(* lose or corrupt it, lose its answer, or deliver the answer after the    *)
(* host has given up: the late answer is then the first thing the next     *)
(* command reads.                                                          *)
(*                                                                         *)
(* pc names the command the host sends next.  A digest stands for the      *)
(* bytes it was made of.                                                   *)
(***************************************************************************)
EXTENDS Integers, Sequences, SequencesExt

CONSTANTS
    Chips,       \* chips that may be on the board, of EspTarget, or "blank"
    Wanted,      \* target_chip of the configuration
    Images,      \* images, sequences of bytes
    BlockSize,   \* size of payload in flash_binary
    Align,       \* what md5_update rounds to (4 in the code)
    Offset,      \* where the image goes
    FlashSize,   \* of the chip
    SyncTrials,  \* trials of the connect arguments
    PollTrials,  \* trials of spi_flash_command (10 in the code)
    MaxRetry,    \* RCP_UPDATE_MAX_RETRY
    MaxFaults    \* bound on what goes wrong on the line

FlasherAssumption ==
    /\ {BlockSize, Align, FlashSize, SyncTrials, PollTrials} \subseteq Nat \ {0}
    /\ {Offset, MaxRetry, MaxFaults} \subseteq Nat
    /\ \A i \in Images : Offset + Len(i) <= FlashSize

VARIABLES
    host,     \* the state of esp_loader.c, protocol.c and esp_rcp_update.c
    rom,      \* the ROM loader of the chip and the registers it gives access to
    line,     \* answers on their way to the host, in order
    faults    \* how often the line failed

vars == <<host, rom, line, faults>>

Erased == "ff"
Idle == "idle"

(***************************************************************************)
(* The chip.                                                               *)
(***************************************************************************)

\* esp_target, in its order, with chip_magic_value: an unused second entry is
\* 0, which a register that reads as 0 matches too.
EspTarget == <<"ESP8266", "ESP32", "ESP32H2">>
MagicRegister(chip) == IF chip = "blank" THEN "0" ELSE chip
MagicOf(chip) == {MagicRegister(chip), "0"}

\* The ROM writes a block behind the ones before it; it refuses a sequence
\* number that is not the next one and a block whose checksum is wrong.
Refuses(cmd) ==
    /\ cmd.op = "data"
    /\ rom.begun = <<>> \/ cmd.checksum # cmd.data \/ cmd.seq # rom.begun[2]

Executed(cmd) ==
    CASE cmd.op = "begin" ->
           [rom EXCEPT !.begun = <<cmd.offset, 0>>,
                       !.flash = [a \in DOMAIN @ |->
                                    IF a >= cmd.offset /\ a < cmd.offset + cmd.erase THEN Erased ELSE @[a]]]
      [] cmd.op = "data" /\ ~Refuses(cmd) ->
           [rom EXCEPT !.begun = <<@[1] + Len(cmd.data), @[2] + 1>>,
                       !.flash = [a \in DOMAIN @ |->
                                    IF a >= rom.begun[1] /\ a < rom.begun[1] + Len(cmd.data)
                                      THEN cmd.data[a - rom.begun[1] + 1] ELSE @[a]]]
      [] cmd.op = "write" -> [rom EXCEPT !.regs[cmd.reg] = cmd.value]
      [] OTHER -> rom

Answer(cmd) ==
    [op |-> cmd.op, failed |-> Refuses(cmd),
     value |-> CASE cmd.op = "read" -> rom.regs[cmd.reg]
                 [] cmd.op = "md5" -> [k \in 1..cmd.size |-> rom.flash[cmd.offset + k - 1]]
                 [] OTHER -> <<>>]

\* The SPI controller ends the command it was given and leaves the id of the
\* flash in w0.
SpiDone ==
    /\ rom.regs["cmd"] # Idle
    /\ rom' = [rom EXCEPT !.regs["cmd"] = Idle, !.regs["w0"] = "id"]
    /\ UNCHANGED <<host, line, faults>>

(***************************************************************************)
(* protocol.c: a command and its answer.                                   *)
(***************************************************************************)

\* A command that arrives, that is lost, whose answer is lost, or whose data
\* arrive changed (the exclusive or over the bytes need not show it).
Spoiled(cmd) == [cmd EXCEPT !.data = [@ EXCEPT ![1] = "bad"]]
Sent(cmd) ==
    {[rom |-> Executed(cmd), line |-> Append(line, Answer(cmd)), faults |-> 0]}
    \cup {[rom |-> rom, line |-> line, faults |-> 1],
          [rom |-> Executed(cmd), line |-> line, faults |-> 1]}
    \cup (IF cmd.op # "data" THEN {}
          ELSE LET bad == [Spoiled(cmd) EXCEPT !.checksum = Spoiled(cmd).data]
               IN {[rom |-> Executed(bad), line |-> Append(line, Answer(bad)), faults |-> 1],
                   [rom |-> rom, line |-> Append(line, Answer(Spoiled(cmd))), faults |-> 1]})

Matches(cmd, answer) == answer.op = cmd.op

\* check_response: answers to other commands are dropped.  When the time is up
\* before the answer is there, what has not arrived yet stays on the line.
NoAnswer == [op |-> "timeout", failed |-> TRUE, value |-> <<>>]
Received(cmd, l) ==
    LET at == {k \in DOMAIN l : Matches(cmd, l[k])}
        first == CHOOSE k \in at : \A j \in at : k <= j
        late == {[line |-> SubSeq(l, k, Len(l)), answer |-> NoAnswer, faults |-> 1] :
                   k \in 1..(IF at = {} THEN Len(l) + 1 ELSE first)}
    IN late \cup (IF at = {} THEN {}
                  ELSE {[line |-> SubSeq(l, first + 1, Len(l)), answer |-> l[first], faults |-> 0]})

(***************************************************************************)
(* The host.                                                               *)
(***************************************************************************)

Rounded(n) == ((n + Align - 1) \div Align) * Align
Minimum(a, b) == IF a < b THEN a ELSE b

\* The part of the image that the next call of esp_loader_flash_write gets,
\* and the block it sends.
Payload == SubSeq(host.image, host.written + 1, Minimum(Len(host.image), host.written + BlockSize))
Block == Payload \o [k \in 1..(BlockSize - Len(Payload)) |-> Erased]

CommandOf(pc) ==
    LET read(r) == [op |-> "read", reg |-> r]
        write(r, v) == [op |-> "write", reg |-> r, value |-> v]
    IN CASE pc = "sync" -> [op |-> "sync"]
         [] pc = "magic" -> read("magic")
         [] pc = "efuse1" -> read("efuse")
         [] pc = "efuse2" -> read("efuse")
         [] pc = "attach" -> [op |-> "attach"]
         [] pc = "begin0" -> [op |-> "begin", offset |-> 0, erase |-> 0]
         [] pc = "rate" -> [op |-> "rate"]
         [] pc = "usr" -> read("usr")
         [] pc = "usr2" -> read("usr2")
         [] pc = "len" -> write("len", "24")
         [] pc = "setusr" -> write("usr", "flash")
         [] pc = "setusr2" -> write("usr2", "flash")
         [] pc = "w0" -> write("w0", "0")
         [] pc = "go" -> write("cmd", "busy")
         [] pc = "poll" -> read("cmd")
         [] pc = "id" -> read("w0")
         [] pc = "oldusr" -> write("usr", host.usr)
         [] pc = "oldusr2" -> write("usr2", host.usr2)
         [] pc = "params" -> [op |-> "params"]
         [] pc = "begin" -> [op |-> "begin", offset |-> Offset, erase |-> Len(host.image)]
         [] pc = "data" -> [op |-> "data", seq |-> host.seq, data |-> Block, checksum |-> Block]
         [] OTHER -> [op |-> "md5", offset |-> Offset, size |-> Len(host.image)]

Connecting == {"sync", "magic", "efuse1", "efuse2", "attach", "begin0", "rate"}
Detecting == {"usr", "usr2", "len", "setusr", "setusr2", "w0", "go", "poll", "id", "oldusr", "oldusr2"}

\* flash_binary starts over; after RCP_UPDATE_MAX_RETRY retries esp_rcp_update
\* aborts.
Retried(h) ==
    IF h.retry + 1 > MaxRetry THEN [h EXCEPT !.retry = @ + 1, !.pc = "aborted"]
    ELSE [h EXCEPT !.retry = @ + 1, !.pc = "usr", !.written = 0]

\* esp_loader_flash_start behind the detection of the flash size.
FallBack(h) == [h EXCEPT !.pc = "begin", !.detected = FALSE, !.fed = <<>>]

\* The command failed, because the chip said so or because the time was up.
Failed(h, answer) ==
    CASE h.pc = "sync" /\ answer.op = "timeout" /\ h.trials > 1 -> [h EXCEPT !.trials = @ - 1]
      [] h.pc \in Connecting /\ ~(h.pc = "sync" /\ answer.op = "timeout" /\ h.trials > 1) ->
           [h EXCEPT !.pc = "failed"]
      [] h.pc \in Detecting -> FallBack(h)
      [] h.pc = "data" -> Retried([h EXCEPT !.fed = @ \o SubSeq(Block, 1, Rounded(Len(Payload))), !.seq = @ + 1])
      [] OTHER -> Retried(h)

To(h, pc) == [h EXCEPT !.pc = pc]

\* loader_detect_chip: the first chip of the table with the magic value.
Detected(magic) == SelectSeq(EspTarget, LAMBDA c : magic \in MagicOf(c))

\* "while (trials--)" and then "if (trials == 0)": an answer to the last trial
\* is taken for a timeout, and when all trials are used up nothing is noticed.
Polled(h, value) ==
    IF value = Idle THEN IF h.trials = 1 THEN FallBack(h) ELSE To(h, "id")
    ELSE IF h.trials = 1 THEN To(h, "id") ELSE [h EXCEPT !.trials = @ - 1]

\* Mutant of Begun: the number of the next block is not reset.
BegunKeepsNumber(h) == [h EXCEPT !.pc = "data", !.written = 0]

Begun(h) == [h EXCEPT !.pc = "data", !.seq = 0, !.written = 0]

Wrote(h) ==
    LET n == Len(Payload)
    IN [h EXCEPT !.fed = @ \o SubSeq(Block, 1, Rounded(n)), !.seq = @ + 1, !.written = @ + n,
                 !.pc = IF h.written + n = Len(h.image) THEN "md5" ELSE "data"]

\* The command succeeded.
Continued(h, value) ==
    CASE h.pc = "sync" -> To(h, "magic")
      [] h.pc = "magic" ->
           IF Detected(value) = <<>> THEN To(h, "failed")
           ELSE [h EXCEPT !.target = Detected(value)[1],
                          !.pc = IF Detected(value)[1] = "ESP8266" THEN "begin0" ELSE "efuse1"]
      [] h.pc = "efuse1" -> To(h, "efuse2")
      [] h.pc = "efuse2" -> To(h, "attach")
      [] h.pc \in {"attach", "begin0"} -> To(h, IF h.target = Wanted THEN "rate" ELSE "failed")
      [] h.pc = "rate" -> To(h, "usr")
      [] h.pc = "usr" -> [h EXCEPT !.usr = value, !.pc = "usr2"]
      [] h.pc = "usr2" -> [h EXCEPT !.usr2 = value, !.pc = "len"]
      [] h.pc = "len" -> To(h, "setusr")
      [] h.pc = "setusr" -> To(h, "setusr2")
      [] h.pc = "setusr2" -> To(h, "w0")
      [] h.pc = "w0" -> To(h, "go")
      [] h.pc = "go" -> [h EXCEPT !.pc = "poll", !.trials = PollTrials]
      [] h.pc = "poll" -> Polled(h, value)
      [] h.pc = "id" -> [h EXCEPT !.flashid = value, !.pc = "oldusr"]
      [] h.pc = "oldusr" -> To(h, "oldusr2")
      [] h.pc = "oldusr2" -> IF h.flashid = "id" THEN [h EXCEPT !.detected = TRUE, !.pc = "params"]
                             ELSE FallBack(h)
      [] h.pc = "params" -> [FallBack(h) EXCEPT !.detected = TRUE]
      [] h.pc = "begin" -> Begun(h)
      [] h.pc = "data" -> Wrote(h)
      [] OTHER -> IF value = h.fed THEN To(h, "verified") ELSE Retried(h)

\* A command and what comes of it.
Exchange ==
    /\ host.pc \notin {"failed", "aborted", "verified"}
    /\ \E s \in Sent(CommandOf(host.pc)) :
         \E r \in Received(CommandOf(host.pc), s.line) :
           /\ faults + s.faults + (IF s.faults = 0 THEN r.faults ELSE 0) <= MaxFaults
           /\ faults' = faults + s.faults + (IF s.faults = 0 THEN r.faults ELSE 0)
           /\ rom' = s.rom
           /\ line' = r.line
           /\ host' = IF r.answer.failed THEN Failed(host, r.answer) ELSE Continued(host, r.answer.value)

Init ==
    \E chip \in Chips, image \in Images :
      /\ host = [pc |-> "sync", trials |-> SyncTrials, target |-> "unknown", image |-> image,
                 usr |-> "", usr2 |-> "", flashid |-> "", detected |-> FALSE, seq |-> 0,
                 written |-> 0, fed |-> <<>>, retry |-> 0]
      /\ rom = [flash |-> [a \in 0..(FlashSize + BlockSize - 1) |-> "old"], begun |-> <<>>,
                regs |-> [r \in {"magic", "efuse", "usr", "usr2", "len", "w0", "cmd"} |->
                            CASE r = "magic" -> MagicRegister(chip) [] r = "cmd" -> Idle [] OTHER -> "orig"]]
      /\ line = <<>> /\ faults = 0

Next == Exchange \/ SpiDone

Spec == Init /\ [][Next]_vars

(***************************************************************************)
(* calc_erase_size, slip.c: pure algorithms.                               *)
(***************************************************************************)

\* In sectors, for the ESP8266.
EraseSectors(perBlock, start, n) ==
    LET head == perBlock - (start % perBlock)
    IN IF n <= head THEN (n + 1) \div 2 ELSE n - head

\* What the comment says of the ROM: it erases as many sectors again when it
\* does not cross a block boundary, and the ones before the boundary again
\* when it does.
RomErases(perBlock, start, e) == e + Minimum(e, perBlock - (start % perBlock))

\* Bytes of the line: 0 for DC, 1 for DD, 2 for the delimiter C0, 3 for DB.
Delimiter == 2
Escape == 3
SlipSend(data) ==
    FlattenSeq([k \in DOMAIN data |->
      CASE data[k] = Delimiter -> <<Escape, 0>> [] data[k] = Escape -> <<Escape, 1>>
        [] OTHER -> <<data[k]>>])

\* Receivers return [ok, data, rest].
SlipError == [ok |-> FALSE, data |-> <<>>, rest |-> <<>>]
SlipReceiveData[s \in Seq(0..3), n \in Nat] ==
    IF n = 0 THEN [ok |-> TRUE, data |-> <<>>, rest |-> s]
    ELSE IF s = <<>> \/ (s[1] = Escape /\ (Len(s) < 2 \/ s[2] > 1)) THEN SlipError
    ELSE LET escaped == s[1] = Escape
             more == SlipReceiveData[IF escaped THEN SubSeq(s, 3, Len(s)) ELSE Tail(s), n - 1]
             byte == IF ~escaped THEN s[1] ELSE IF s[2] = 0 THEN Delimiter ELSE Escape
         IN [more EXCEPT !.data = IF more.ok THEN <<byte>> \o @ ELSE @]

After(s, stop(_)) ==
    LET at == {k \in DOMAIN s : stop(s[k])}
    IN IF at = {} THEN <<>> ELSE SubSeq(s, CHOOSE k \in at : \A j \in at : k <= j, Len(s))

SlipReceivePacket(s, n) ==
    LET frame == After(After(s, LAMBDA c : c = Delimiter), LAMBDA c : c # Delimiter)
        r == SlipReceiveData[Tail(frame), n - 1]
        close == After(r.rest, LAMBDA c : c = Delimiter)
    IN IF frame = <<>> \/ ~r.ok \/ close = <<>> THEN SlipError
       ELSE [ok |-> TRUE, data |-> <<frame[1]>> \o r.data, rest |-> Tail(close)]

(***************************************************************************)
(* Properties                                                              *)
(***************************************************************************)

\* esp_loader_flash_verify: whatever the line loses, changes or delivers late,
\* an image that was reported as written is in the flash, byte for byte.
VerifiedIsInFlash ==
    host.pc = "verified" =>
        \A k \in 1..Len(host.image) : rom.flash[Offset + k - 1] = host.image[k]

\* A faultless line: an image whose size is a multiple of Align is written at
\* the first try, and in that try the SPI configuration that detect_flash_size
\* changed is the old one again if the detection succeeded.
CleanRunSucceeds ==
    faults = 0 =>
      /\ Len(host.image) % Align = 0 => host.retry = 0
      /\ host.pc = "failed" => Wanted # host.target
      /\ host.retry = 0 /\ host.detected /\ host.pc \in {"params", "begin", "data", "md5"} =>
            rom.regs["usr"] = "orig" /\ rom.regs["usr2"] = "orig"

\* A chip other than the configured one is never written to.
OnlyWantedChip ==
    rom.regs["magic"] # MagicRegister(Wanted) => \A a \in DOMAIN rom.flash : rom.flash[a] = "old"

\* loader_flash_begin_cmd and loader_flash_data_cmd: within one try the number
\* of a block is its place in the image.
NumbersFollowBlocks ==
    host.pc = "data" => host.seq * BlockSize = host.written

\* SLIP_send and SLIP_receive_packet: a packet comes out as it was sent, after
\* anything that was left over from before and any number of delimiters, and
\* nothing of the next packet is consumed.  Its first byte, the direction, is
\* no special character.
SlipRoundTrip ==
    \A n \in 1..3 : \A data \in [1..n -> 0..3] : data[1] < Delimiter =>
      \A junk \in {<<>>, <<0>>, <<1, 3>>}, dummies \in 1..3, rest \in {<<>>, <<2, 0, 2>>} :
        SlipReceivePacket(junk \o [k \in 1..dummies |-> Delimiter] \o SlipSend(data)
                            \o <<Delimiter>> \o rest, n)
          = [ok |-> TRUE, data |-> data, rest |-> rest]

\* calc_erase_size: with the ROM that the comment describes, the image is
\* erased, unless it ends in the first part of the second block.
EraseCoversImage ==
    \A start \in 0..7, n \in 1..16 :
      LET head == 4 - (start % 4)
      IN (n <= head \/ n >= 2 * head) => RomErases(4, start, EraseSectors(4, start, n)) >= n

=============================================================================
