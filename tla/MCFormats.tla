----------------------------- MODULE MCFormats ------------------------------
(***************************************************************************)
(* The formats in which data are sent and kept, each on its own: the       *)
(* packets of mDNS, CBOR, JSON, the certificate partition, the requests    *)
(* and responses of RainMaker commands, and the serial protocol of the co- *)
(* processor. A behaviour is a behaviour of one of them; the others stand  *)
(* still.                                                                  *)
(***************************************************************************)
EXTENDS Integers, Sequences

VARIABLES
    part,  \* the component that runs in this behaviour
    packet_buf, packet_index, packet_section, packet_log, packet_whole,
    packet_items, packet_packets,
    cbor_encoders, cbor_buf, cbor_needed, cbor_err, cbor_wire, cbor_doc,
    cbor_given,
    cert_part, cert_found, cert_asked, cert_iter, cert_visited, cert_buffers,
    cmd_list, cmd_request, cmd_output, cmd_got,
    json_gen, json_nodes, json_open, json_calls, json_phase, json_size,
    json_given, json_toks,
    flash_host, flash_rom, flash_line, flash_faults

\* The entries of a partition of secure certificates.
CertEntries ==
    {[type |-> "cert", sub |-> 0, len |-> 1, flags |-> "plain", crc |-> TRUE],
     [type |-> "cert", sub |-> 0, len |-> 2, flags |-> "plain", crc |-> FALSE],
     [type |-> "cert", sub |-> 1, len |-> 3, flags |-> "encrypted", crc |-> TRUE],
     [type |-> "key", sub |-> 1, len |-> 0, flags |-> "derived", crc |-> TRUE],
     [type |-> "key", sub |-> 0, len |-> 2, flags |-> "encrypted", crc |-> TRUE]}

Packet == INSTANCE MdnsPacket WITH
    MaxPacket <- 290, Inst <- "esp", Host <- "esp", Subtype <- "esp",
    LongLabel <- "_services", LongLen <- 2, Txts <- 2, TxtLen <- 1,
    Ip6Count <- 2, Dup <- TRUE,
    Items <- {"q_service", "q_any", "q_host", "ptr", "sdptr", "srv", "txt", "a", "aaaa"},
    MaxItems <- 3, MaxPackets <- 1,
    buf <- packet_buf, index <- packet_index, section <- packet_section,
    log <- packet_log, whole <- packet_whole, items <- packet_items,
    packets <- packet_packets

\* Packets that fill the buffer, one after the other.
Full == INSTANCE MdnsPacket WITH
    MaxPacket <- 76, Inst <- "esp", Host <- "esp", Subtype <- "esp",
    LongLabel <- "_services", LongLen <- 2, Txts <- 0, TxtLen <- 1,
    Ip6Count <- 1, Dup <- FALSE,
    Items <- {"q_service", "q_any", "ptr", "sdptr", "srv", "txt", "a"},
    MaxItems <- 2, MaxPackets <- 2,
    buf <- packet_buf, index <- packet_index, section <- packet_section,
    log <- packet_log, whole <- packet_whole, items <- packet_items,
    packets <- packet_packets

CborText == INSTANCE Cbor WITH
    Size <- 4, Ints <- {-9, 3}, Texts <- {<<1, 2>>}, ByteStrings <- {<<1>>},
    Lengths <- {-1, 2}, Tags <- {2}, MaxDepth <- 2, MaxItems <- 5,
    JsonFlags <- {{}, {"stringify"}, {"metadata", "stringify"}, {"objects", "metadata", "stringify"}},
    encoders <- cbor_encoders, buf <- cbor_buf, needed <- cbor_needed,
    err <- cbor_err, wire <- cbor_wire, doc <- cbor_doc, given <- cbor_given

Cert == INSTANCE SecureCert WITH
    Entries <- CertEntries, Width <- 64, Align <- 2, HeaderLen <- 2,
    FooterLen <- 2, MaxEntries <- 3, MaxBuffers <- 1,
    part <- cert_part, found <- cert_found, asked <- cert_asked,
    iter <- cert_iter, visited <- cert_visited, buffers <- cert_buffers

Cmd == INSTANCE CmdResp WITH
    RMAKER_MAX_CMD <- 2, ChunkMax <- 3, REQ_ID_LEN <- 2, Slack <- 16,
    Cmds <- {1, 256}, Accesses <- {{1}}, ReqIds <- {<<>>, <<7>>, <<7, 8>>},
    Datas <- {<<>>, <<1, 5, 6>>, <<6, 1, 2, 5, 1, 2, 3>>},
    Responses <- {<<>>, <<3, 4>>, <<6, 2, 3, 1, 1, 1>>,
                  <<1, 2, 3, 4, 5, 6, 7, 8, 9>>}, Beyond <- {6},
    list <- cmd_list, request <- cmd_request, output <- cmd_output,
    got <- cmd_got

\* JSON through a small buffer that is flushed,
JsonText == INSTANCE Json WITH
    Names <- {<<"a">>, <<"a", "b">>}, Strings <- {<<"a">>},
    Prims <- {<<"1", "2">>}, MaxCalls <- 4, MaxDepth <- 3, BufSize <- 4,
    FlushCb <- TRUE,
    gen <- json_gen, nodes <- json_nodes, open <- json_open,
    calls <- json_calls, phase <- json_phase, size <- json_size,
    given <- json_given, toks <- json_toks

\* and into a buffer that has to hold all of it.
JsonBuffer == INSTANCE Json WITH
    Names <- {<<"a">>, <<"a", "b">>}, Strings <- {<<"a">>},
    Prims <- {<<"1", "2">>}, MaxCalls <- 4, MaxDepth <- 3, BufSize <- 14,
    FlushCb <- FALSE,
    gen <- json_gen, nodes <- json_nodes, open <- json_open,
    calls <- json_calls, phase <- json_phase, size <- json_size,
    given <- json_given, toks <- json_toks

Flash == INSTANCE Flasher WITH
    Chips <- {"ESP8266", "ESP32", "ESP32H2", "blank", "other"},
    Wanted <- "ESP32H2",
    Images <- {<<"a", "b", "c", "d">>, <<"a", "b", "c", "d", "e", "f">>, <<"a">>},
    BlockSize <- 4, Align <- 2, Offset <- 1, FlashSize <- 8, SyncTrials <- 2,
    PollTrials <- 2, MaxRetry <- 1, MaxFaults <- 2,
    host <- flash_host, rom <- flash_rom, line <- flash_line,
    faults <- flash_faults

packetVars ==
    <<packet_buf, packet_index, packet_section, packet_log, packet_whole,
      packet_items, packet_packets>>
cborVars ==
    <<cbor_encoders, cbor_buf, cbor_needed, cbor_err, cbor_wire, cbor_doc,
      cbor_given>>
certVars ==
    <<cert_part, cert_found, cert_asked, cert_iter, cert_visited,
      cert_buffers>>
cmdVars ==
    <<cmd_list, cmd_request, cmd_output, cmd_got>>
jsonVars ==
    <<json_gen, json_nodes, json_open, json_calls, json_phase, json_size,
      json_given, json_toks>>
flashVars ==
    <<flash_host, flash_rom, flash_line, flash_faults>>
vars == <<part, packetVars, cborVars, certVars, cmdVars, jsonVars, flashVars>>

Init ==
    /\ part \in {"packet", "full", "cbor", "cert", "cmd", "json", "jsonbuf", "flash"}
    /\ CASE part = "full" -> Full!Init
         [] OTHER -> Packet!Init
    /\ CborText!Init
    /\ Cert!Init
    /\ Cmd!Init
    /\ CASE part = "jsonbuf" -> JsonBuffer!Init
         [] OTHER -> JsonText!Init
    /\ Flash!Init
    /\ part = "flash" \/ (flash_host.image = <<"a">> /\ flash_rom.regs["magic"] = "0")

Next ==
    \/ /\ part = "packet" /\ Packet!Next
       /\ UNCHANGED <<part, cborVars, certVars, cmdVars, jsonVars,
                       flashVars>>
    \/ /\ part = "full" /\ Full!Next
       /\ UNCHANGED <<part, cborVars, certVars, cmdVars, jsonVars,
                       flashVars>>
    \/ /\ part = "cbor" /\ CborText!Next
       /\ UNCHANGED <<part, packetVars, certVars, cmdVars, jsonVars,
                       flashVars>>
    \/ /\ part = "cert" /\ Cert!Next
       /\ UNCHANGED <<part, packetVars, cborVars, cmdVars, jsonVars,
                       flashVars>>
    \/ /\ part = "cmd" /\ Cmd!Next
       /\ UNCHANGED <<part, packetVars, cborVars, certVars, jsonVars,
                       flashVars>>
    \/ /\ part = "json" /\ JsonText!Next
       /\ UNCHANGED <<part, packetVars, cborVars, certVars, cmdVars,
                       flashVars>>
    \/ /\ part = "jsonbuf" /\ JsonBuffer!Next
       /\ UNCHANGED <<part, packetVars, cborVars, certVars, cmdVars,
                       flashVars>>
    \/ /\ part = "flash" /\ Flash!Next
       /\ UNCHANGED <<part, packetVars, cborVars, certVars, cmdVars,
                       jsonVars>>

Spec == Init /\ [][Next]_vars

(***************************************************************************)
(* Properties                                                              *)
(***************************************************************************)

ASSUME FormatAssumptions ==
    /\ Cert!SecureCertAssumption /\ Flash!FlasherAssumption
    /\ JsonText!JsonAssumption /\ JsonBuffer!JsonAssumption

\* _mdns_append_fqdn and the record writers: a receiver that follows the counts
\* of the header finds exactly the questions and records that were meant:
\* compression never points into an unfinished name, at a name of another
\* record that only looks alike, or at bytes of an earlier packet, and every
\* data length covers the data; unless the packet was full or a name has the same
\* label twice in a row.  No append goes past the end of the buffer, also
\* where it does not check (the single zero byte of an empty TXT record).
\* esp_rmaker_cmd_response_handler: a command gets the data of its request and the
\* cloud the answer to it, in however many TLVs, as long as their headers have room
\* (cmd_resp.c:146), and a request that was cut off runs nothing else.
SentParses ==
    /\ IF part = "full" THEN Full!NeverPastEnd /\ Full!SentParses
       ELSE Packet!NeverPastEnd /\ Packet!SentParses
    /\ part = "cmd" => Cmd!AnswersTheRequest /\ Cmd!CutRunsNothingElse /\ Cmd!ResponseFits

\* What was written is what is read.  TinyCBOR: the parser, the pretty printer
\* and the conversion to JSON give back what the encoder was called with, a
\* document that was cut off is noticed, a map is accepted as canonical exactly
\* when its keys are sorted, and the encoder counts exactly the bytes that did
\* not fit.  esp_secure_cert_find_tlv and the iterator find every entry of the
\* partition, whatever the lengths before it.  The JSON parser finds every value
\* the generator wrote, wherever its buffer was flushed, and refuses a text that
\* was cut off.
ReadsBack ==
    /\ CborText!ReadsBack /\ CborText!ConvertsBack /\ []CborText!ExtraBytesAreExact
    /\ [](Cert!FindsTheEntry /\ Cert!IteratesInOrder)
    /\ [](part = "json" => /\ JsonText!GivesBackWhatWasWritten
                          /\ JsonText!CutIsRefused /\ JsonText!SizesAreRight)
    /\ [](part = "jsonbuf" => /\ JsonBuffer!GivesBackWhatWasWritten
                             /\ JsonBuffer!CutIsRefused /\ JsonBuffer!SizesAreRight)

\* esp_rcp_update: an image reported as verified is in the flash of the
\* co-processor, whatever the serial line loses, changes or delivers late, no
\* other chip is written to, and with a line that works the first try succeeds.
UpdateIsSound ==
    part = "flash" => /\ Flash!VerifiedIsInFlash /\ Flash!CleanRunSucceeds
                      /\ Flash!OnlyWantedChip /\ Flash!NumbersFollowBlocks

\* SLIP_send, SLIP_receive_packet and calc_erase_size on all small inputs.
ASSUME SlipAndErase == Flash!SlipRoundTrip /\ Flash!EraseCoversImage

=============================================================================
