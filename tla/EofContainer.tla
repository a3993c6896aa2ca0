---------------------------- MODULE EofContainer ----------------------------
(* The bytes of an EOF container: header, types, code sections, containers    *)
(* and data; how they are written and how they are read. A container read is  *)
(* the record [error, header, body, raw]; error is "" when it was read.       *)
EXTENDS Integers, Sequences, SequencesExt

U8 == 256
U16 == U8 * U8
ToBytes(n) == << n \div U8, n % U8 >>
\* The number in two bytes after the first at bytes.
U16At(raw, at) == U8 * raw[at + 1] + raw[at + 2]
SumOf(sizes) == FoldSeq(LAMBDA a, b : a + b, 0, sizes)
Joined(sections) == FlattenSeq(sections)

Magic == << \hEF, \h00 >>
Version == \h01
KindTypes == 1
KindCode == 2
KindContainer == 3
KindData == 4
KindTerminal == 0
-----------------------------------------------------------------------------
(* Writing.                                                                  *)

SizesEncoded(sizes) == ToBytes(Len(sizes)) \o Joined([n \in DOMAIN sizes |-> ToBytes(sizes[n])])

HeaderEncode(header) ==
    Magic \o << Version, KindTypes >> \o ToBytes(header.types_size)
    \o << KindCode >> \o SizesEncoded(header.code_sizes)
    \o (IF header.container_sizes = << >> THEN << >>
        ELSE << KindContainer >> \o SizesEncoded(header.container_sizes))
    \o << KindData >> \o ToBytes(header.data_size) \o << KindTerminal >>

TypesEncode(t) == << t.inputs, t.outputs >> \o ToBytes(t.max_stack_size)

BodyEncode(body) ==
    Joined([n \in DOMAIN body.types |-> TypesEncode(body.types[n])])
    \o Joined(body.code) \o Joined(body.containers) \o body.data

EncodeSlow(eof) == HeaderEncode(eof.header) \o BodyEncode(eof.body)

\* EofBody::into_eof: the lengths are cut to 16 bits.
IntoEof(body) ==
    LET lengths(sections) == [n \in DOMAIN sections |-> Len(sections[n]) % U16]
        header == [types_size |-> (4 * Len(body.types)) % U16,
                   code_sizes |-> lengths(body.code),
                   container_sizes |-> lengths(body.containers),
                   data_size |-> Len(body.data) % U16]
    IN  [error |-> "", header |-> header, body |-> body,
         raw |-> HeaderEncode(header) \o BodyEncode(body)]
-----------------------------------------------------------------------------
(* Reading.                                                                  *)

\* consume_header_section_size after at bytes. The number of bytes the sizes
\* take is computed in 16 bits; a size past the end of the input is a panic.
SectionSizes(raw, at) ==
    LET rest == Len(raw) - at - 2
        num_sections == U16At(raw, at)
        byte_size == (2 * num_sections) % U16
        Size(n) == U16At(raw, at + 2 * n)
        missing == 2 * num_sections > rest
        Answer(error) == [error |-> error, sizes |-> << >>, next |-> at]
    IN  IF rest < 0 THEN Answer("MissingInput")
        ELSE IF num_sections = 0 THEN Answer("NonSizes")
        ELSE IF rest < byte_size THEN Answer("ShortInputForSizes")
        ELSE IF \E n \in 1 .. num_sections : 2 * n <= rest /\ Size(n) = 0 THEN Answer("ZeroSize")
        ELSE IF missing THEN Answer("panic")
        ELSE [error |-> "", sizes |-> [n \in 1 .. num_sections |-> Size(n)], next |-> at + 2 + byte_size]

HeaderSize(header) ==
    13 + 2 * Len(header.code_sizes)
       + (IF header.container_sizes = << >> THEN 0 ELSE 3 + 2 * Len(header.container_sizes))

\* Mutant: the byte after the data size is not looked at.
TerminatedByAnything(raw, at) == TRUE

Terminated(raw, at) == raw[at + 1] = KindTerminal

\* EofHeader::decode: of a header that is refused only the error is known.
HeaderDecode(raw) ==
    LET code == SectionSizes(raw, 7)
        has_containers == raw[code.next + 1] = KindContainer
        containers == IF has_containers THEN SectionSizes(raw, code.next + 1)
                      ELSE [error |-> "", sizes |-> << >>, next |-> code.next]
        data == containers.next + 1     \* after the byte of KIND_DATA
        Refused(error) == [error |-> error]
        Missing(bytes) == Len(raw) < bytes
    IN  IF Missing(2) THEN Refused("MissingInput")
        ELSE IF SubSeq(raw, 1, 2) # Magic THEN Refused("InvalidEOFMagicNumber")
        ELSE IF Missing(3) THEN Refused("MissingInput")
        ELSE IF raw[3] # Version THEN Refused("InvalidEOFVersion")
        ELSE IF Missing(4) THEN Refused("MissingInput")
        ELSE IF raw[4] # KindTypes THEN Refused("InvalidTypesKind")
        ELSE IF Missing(6) THEN Refused("MissingInput")
        ELSE IF U16At(raw, 4) % 4 # 0 THEN Refused("InvalidTypesSection")
        ELSE IF Missing(7) THEN Refused("MissingInput")
        ELSE IF raw[7] # KindCode THEN Refused("InvalidCodeKind")
        ELSE IF code.error # "" THEN Refused(code.error)
        ELSE IF Len(code.sizes) > 1024 THEN Refused("TooManyCodeSections")
        ELSE IF Len(code.sizes) # U16At(raw, 4) \div 4 THEN Refused("MismatchCodeAndTypesSize")
        ELSE IF Missing(code.next + 1) THEN Refused("MissingInput")
        ELSE IF raw[code.next + 1] \notin {KindContainer, KindData} THEN Refused("InvalidKindAfterCode")
        ELSE IF containers.error # "" THEN Refused(containers.error)
        ELSE IF Len(containers.sizes) > 256 THEN Refused("TooManyContainerSections")
        ELSE IF Missing(data) THEN Refused("MissingInput")
        ELSE IF raw[data] # KindData THEN Refused("InvalidDataKind")
        ELSE IF Missing(data + 2) THEN Refused("MissingInput")
        ELSE IF Missing(data + 3) THEN Refused("MissingInput")
        ELSE IF ~Terminated(raw, data + 2) THEN Refused("InvalidTerminalByte")
        ELSE [error |-> "", types_size |-> U16At(raw, 4), code_sizes |-> code.sizes,
              container_sizes |-> containers.sizes, data_size |-> U16At(raw, data)]

TypesDecode(raw, at) ==
    [inputs |-> raw[at + 1], outputs |-> raw[at + 2], max_stack_size |-> U16At(raw, at + 2)]
TypesValid(t) ==
    /\ t.inputs <= \h7F /\ t.outputs <= \h80 /\ t.max_stack_size <= \h3FF
    /\ t.inputs <= t.max_stack_size

\* The sections of these sizes, one after the other.
Sections(raw, at, sizes) ==
    [n \in DOMAIN sizes |->
        LET start == at + SumOf(SubSeq(sizes, 1, n - 1)) IN SubSeq(raw, start + 1, start + sizes[n])]

\* EofBody::decode: all but the data must be there, and nothing after it.
BodyDecode(raw, header) ==
    LET header_len == HeaderSize(header)
        code_at == header_len + header.types_size
        containers_at == code_at + SumOf(header.code_sizes)
        data_at == containers_at + SumOf(header.container_sizes)
        types == [n \in 1 .. header.types_size \div 4 |-> TypesDecode(raw, header_len + 4 * (n - 1))]
    IN  IF Len(raw) < data_at THEN [error |-> "MissingBodyWithoutData"]
        ELSE IF Len(raw) > data_at + header.data_size THEN [error |-> "DanglingData"]
        ELSE IF \E n \in DOMAIN types : ~TypesValid(types[n]) THEN [error |-> "InvalidTypesSection"]
        ELSE [error |-> "", types |-> types,
              code |-> Sections(raw, code_at, header.code_sizes),
              containers |-> Sections(raw, containers_at, header.container_sizes),
              data |-> SubSeq(raw, data_at + 1, Len(raw)),
              is_data_filled |-> Len(raw) - data_at = header.data_size]

Decode(raw) ==
    LET header == HeaderDecode(raw)
        body == BodyDecode(raw, header)
    IN  IF header.error # "" THEN [error |-> header.error]
        ELSE IF body.error # "" THEN [error |-> body.error]
        ELSE [error |-> "", header |-> header, body |-> body, raw |-> raw]
=============================================================================
