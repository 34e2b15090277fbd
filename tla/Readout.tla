------------------------------ MODULE Readout ------------------------------
(* How the drivers turn the bytes a chip sends into numbers: fields packed   *)
(* into shared bytes and words, two's-complement constants of every width    *)
(* from 3 to 24 bits, per-pixel corrections spread over an EEPROM, a list of *)
(* unusable pixels, and words protected by a checksum.                       *)
(*                                                                           *)
(* A state is one block of a chip's memory as it is read; a step is another  *)
(* block that differs in one bit or, for the checksummed words, the same     *)
(* answer after a disturbance on the bus.  What the drivers compute from a   *)
(* block is a function of it, so the properties are about steps.             *)
(* Conversions to floating point that follow are left out.                   *)
EXTENDS BitFields, Sequences, SequencesExt

CONSTANTS
    Blocks,          \* the packed blocks looked at, names of Layout
    Answers,         \* the checksummed answers looked at, names of AnswerWords
    PixelCount,      \* pixels of the list of deviating ones (768)
    MaxDeviating,    \* how many of a kind the list holds (4)
    Sampled          \* pixels of the camera whose corrections are computed

ASSUME ReadoutAssumption ==
    /\ PixelCount \in Nat /\ MaxDeviating \in Nat
    /\ Sampled \subseteq 0..767

VARIABLES
    block,           \* the name of what is read, or "none"
    image,           \* its bytes or words
    changed          \* whether it is another one than at first

readoutVars == <<block, image, changed>>

--------------------------------------------------------------------------
(* Layouts: every quantity with its width, signedness and wires. *)
U(width, wires) == [width |-> width, signed |-> FALSE, wires |-> wires]
S(width, wires) == [width |-> width, signed |-> TRUE, wires |-> wires]
UField(unit, low, count) == U(count, Wires(unit, low, count, 0))
SField(unit, low, count) == S(count, Wires(unit, low, count, 0))
LittleEndian(unit, bytes) == UNION {Wires(unit + i, 0, 8, 8 * i) : i \in 0..bytes - 1}
BigEndian(unit, bytes) == UNION {Wires(unit + i, 0, 8, 8 * (bytes - 1 - i)) : i \in 0..bytes - 1}

\* BMP581: two little-endian 24-bit results, only the first is signed.
Bmp581Measurement ==
    [temperature_raw |-> S(24, LittleEndian(0, 3)), pressure_raw |-> U(24, LittleEndian(3, 3))]

\* The oversampling the BMP581 applied.
Bmp581EffectiveOversampling ==
    [temperature |-> UField(0, 0, 3), pressure |-> UField(0, 3, 3), odr_is_valid |-> UField(0, 7, 1)]

\* BMM350: four little-endian 24-bit results.
Bmm350RawMeasurement ==
    [x |-> S(24, LittleEndian(0, 3)), y |-> S(24, LittleEndian(3, 3)),
     z |-> S(24, LittleEndian(6, 3)), temperature |-> S(24, LittleEndian(9, 3))]

\* Mutant of Bmm350OffsetY: its high nibble is not moved down.
Bmm350OffsetYUnmoved == Wires(14, 12, 4, 12) \union Wires(15, 0, 8, 0)

\* The second of the three 12-bit offsets is split over two words.
Bmm350OffsetY == Wires(14, 12, 4, 8) \union Wires(15, 0, 8, 0)

\* The factory compensation of the BMM350, two coefficients to a word.
Bmm350Compensation ==
    [offset_x |-> SField(14, 0, 12), offset_y |-> S(12, Bmm350OffsetY),
     offset_z |-> S(12, Wires(15, 8, 4, 8) \union Wires(16, 0, 8, 0)),
     temperature_offset |-> SField(13, 0, 8), temperature_sensitivity |-> SField(13, 8, 8),
     sensitivity_x |-> SField(16, 8, 8), sensitivity_y |-> SField(17, 0, 8),
     sensitivity_z |-> SField(17, 8, 8),
     tco_x |-> SField(18, 0, 8), tco_y |-> SField(19, 0, 8), tco_z |-> SField(20, 0, 8),
     tcs_x |-> SField(18, 8, 8), tcs_y |-> SField(19, 8, 8), tcs_z |-> SField(20, 8, 8),
     cross_x_y |-> SField(21, 0, 8), cross_y_x |-> SField(21, 8, 8),
     cross_z_x |-> SField(22, 0, 8), cross_z_y |-> SField(22, 8, 8),
     reference_temperature |-> SField(24, 0, 16), variant_id |-> UField(30, 9, 6)]

\* The status of the BMM350's power management.
Bmm350PmuStatus ==
    [busy |-> UField(0, 0, 1), data_rate_overwritten |-> UField(0, 1, 1),
     averaging_overwritten |-> UField(0, 2, 1), normal_mode |-> UField(0, 3, 1),
     illegal_command |-> UField(0, 4, 1), command_value |-> UField(0, 5, 3)]

\* BME690: trimming values read from three register blocks into one array.
\* par_h1 and par_h5 share the byte at index 24.
Bme690Calibration ==
    [par_t1 |-> U(16, LittleEndian(31, 2)), par_t2 |-> U(16, LittleEndian(0, 2)),
     par_t3 |-> SField(2, 0, 8),
     par_p1 |-> U(16, LittleEndian(10, 2)), par_p2 |-> U(16, LittleEndian(12, 2)),
     par_p3 |-> SField(14, 0, 8), par_p4 |-> SField(15, 0, 8),
     par_p5 |-> S(16, LittleEndian(4, 2)), par_p6 |-> S(16, LittleEndian(6, 2)),
     par_p7 |-> SField(8, 0, 8), par_p8 |-> SField(9, 0, 8),
     par_p9 |-> S(16, LittleEndian(18, 2)),
     par_p10 |-> SField(20, 0, 8), par_p11 |-> SField(21, 0, 8),
     par_h1 |-> S(12, Wires(25, 0, 8, 4) \union Wires(24, 0, 4, 0)),
     par_h2 |-> SField(26, 0, 8), par_h3 |-> UField(28, 0, 8), par_h4 |-> SField(27, 0, 8),
     par_h5 |-> S(12, Wires(23, 0, 8, 4) \union Wires(24, 4, 4, 0)),
     par_h6 |-> UField(29, 0, 8),
     par_g1 |-> SField(35, 0, 8), par_g2 |-> S(16, LittleEndian(33, 2)),
     par_g3 |-> SField(36, 0, 8),
     res_heat_range |-> UField(39, 4, 2), res_heat_val |-> SField(37, 0, 8)]

\* The BME690's result block once its new-data bit is set.
Bme690Field ==
    [pressure_raw |-> U(24, BigEndian(2, 3)), temperature_raw |-> U(24, BigEndian(5, 3)),
     relative_humidity_raw |-> U(16, BigEndian(8, 2)),
     gas_resistance_raw |-> U(10, Wires(15, 0, 8, 2) \union Wires(16, 6, 2, 0)),
     gas_range |-> UField(16, 0, 4), gas_measurement_valid |-> UField(16, 5, 1),
     heater_stable |-> UField(16, 4, 1), gas_measurement_index |-> UField(0, 0, 4),
     measurement_index |-> UField(1, 0, 8)]

\* AS7343: the gain that was applied, then 18 little-endian counts.
As7343Measurement ==
    [i \in 0..18 |-> IF i = 0 THEN UField(0, 0, 4) ELSE U(16, LittleEndian(2 * i - 1, 2))]

\* OPT4048: exponent, mantissa, counter and checksum of each channel.
Opt4048Channels ==
    [k \in {"exponent", "mantissa", "counter", "crc"} \X (0..3) |->
        LET first == 4 * k[2] IN
        CASE k[1] = "exponent" -> UField(first, 4, 4)
          [] k[1] = "mantissa" -> U(20, Wires(first, 0, 4, 16) \union BigEndian(first + 1, 2))
          [] k[1] = "counter" -> UField(first + 3, 4, 4)
          [] k[1] = "crc" -> UField(first + 3, 0, 4)]

Opt4048Flags ==
    [low |-> UField(0, 0, 1), high |-> UField(0, 1, 1),
     conversion_ready |-> UField(0, 2, 1), overload |-> UField(0, 3, 1)]

\* MLX90640: the status word and the constants of the calibration EEPROM.
Mlx90640Status ==
    [subpage |-> UField(0, 0, 3), data_ready |-> UField(0, 3, 1),
     overwrite_enabled |-> UField(0, 4, 1)]

Mlx90640Voltage ==
    [k_vdd |-> SField(51, 8, 8), vdd25 |-> UField(51, 0, 8)]
Mlx90640Ambient ==
    [kv_ptat |-> SField(50, 10, 6), kt_ptat |-> SField(50, 0, 10),
     v_ptat25 |-> UField(49, 0, 16), alpha_ptat |-> UField(16, 12, 4)]
Mlx90640GainAndResolution ==
    [gain_ee |-> SField(48, 0, 16), resolution_ee |-> UField(56, 12, 2),
     calibration_chess |-> UField(10, 11, 1)]
Mlx90640SensitivityCorrections ==
    [tgc |-> SField(60, 0, 8), ks_ta |-> SField(60, 8, 8),
     step |-> UField(63, 12, 2), ct2 |-> UField(63, 4, 4), ct3 |-> UField(63, 8, 4),
     scale |-> UField(63, 0, 4),
     ks_to_0 |-> SField(61, 0, 8), ks_to_1 |-> SField(61, 8, 8),
     ks_to_2 |-> SField(62, 0, 8), ks_to_3 |-> SField(62, 8, 8)]
Mlx90640CompensationPixels ==
    [alpha_scale |-> UField(32, 12, 4), offset0 |-> SField(58, 0, 10),
     offset1 |-> SField(58, 10, 6), alpha0 |-> SField(57, 0, 10), alpha1 |-> SField(57, 10, 6),
     kta_scale |-> UField(56, 4, 4), cp_kta |-> SField(59, 0, 8),
     kv_scale |-> UField(56, 8, 4), cp_kv |-> SField(59, 8, 8)]
Mlx90640Kv ==
    [i \in 0..3 |-> SField(52, <<12, 4, 8, 0>>[i + 1], 4)]
Mlx90640Interleaved ==
    <<SField(53, 0, 6), SField(53, 6, 5), SField(53, 11, 5)>>

\* What the corrections of the pixels are built from.
Mlx90640Alpha ==
    [remainder_scale |-> UField(32, 0, 4), column_scale |-> UField(32, 4, 4),
     row_scale |-> UField(32, 8, 4), reference |-> UField(33, 0, 16)]
Mlx90640Offset ==
    [remainder_scale |-> UField(16, 0, 4), column_scale |-> UField(16, 4, 4),
     row_scale |-> UField(16, 8, 4), reference |-> SField(17, 0, 16)]
Mlx90640Kta ==
    [base |-> <<SField(54, 8, 8), SField(55, 8, 8), SField(54, 0, 8), SField(55, 0, 8)>>,
     remainder_scale |-> UField(56, 0, 4)]
Nibble(first, index) == SField(first + index \div 4, 4 * (index % 4), 4)
AlphaRemainder(pixel) == SField(64 + pixel, 4, 6)
OffsetRemainder(pixel) == SField(64 + pixel, 10, 6)
KtaRemainder(pixel) == SField(64 + pixel, 1, 3)

\* A block: the driver that reads it, the addresses and the width of its
\* units, and what is read from it.
Values(record) == {record[name] : name \in DOMAIN record}
Packed(driver, units, width, quantities) ==
    [driver |-> driver, units |-> units, width |-> width, quantities |-> quantities]
Mlx90640Constants ==
    UNION {Values(Mlx90640Voltage), Values(Mlx90640Ambient), Values(Mlx90640GainAndResolution),
           Values(Mlx90640SensitivityCorrections), Values(Mlx90640CompensationPixels),
           Values(Mlx90640Kv), Values(Mlx90640Interleaved), Values(Mlx90640Alpha),
           Values(Mlx90640Offset), Values(Mlx90640Kta.base), {Mlx90640Kta.remainder_scale},
           {Nibble(first, i) : first \in {18, 34}, i \in 0..23},
           {Nibble(first, i) : first \in {24, 40}, i \in 0..31},
           {AlphaRemainder(p) : p \in Sampled}, {OffsetRemainder(p) : p \in Sampled},
           {KtaRemainder(p) : p \in Sampled}}
Layout ==
    [bmp581_measurement |-> Packed("bmp581", 0..5, 8, Values(Bmp581Measurement)),
     bmp581_oversampling |-> Packed("bmp581", {0}, 8, Values(Bmp581EffectiveOversampling)),
     bmm350_measurement |-> Packed("bmm350", 0..11, 8, Values(Bmm350RawMeasurement)),
     bmm350_otp |-> Packed("bmm350", 0..31, 16, Values(Bmm350Compensation)),
     bmm350_status |-> Packed("bmm350", {0}, 8, Values(Bmm350PmuStatus)),
     bme690_calibration |-> Packed("bme690", 0..41, 8, Values(Bme690Calibration)),
     bme690_field |-> Packed("bme690", 0..16, 8, Values(Bme690Field)),
     as7343_measurement |-> Packed("as7343", 0..36, 8, Values(As7343Measurement)),
     opt4048_measurement |-> Packed("opt4048", 0..15, 8, Values(Opt4048Channels)),
     opt4048_flags |-> Packed("opt4048", {0}, 16, Values(Opt4048Flags)),
     mlx90640_status |-> Packed("mlx90640", {0}, 16, Values(Mlx90640Status)),
     mlx90640_eeprom |-> Packed("mlx90640", (0..63) \union {64 + p : p \in Sampled}, 16,
                                Mlx90640Constants)]

--------------------------------------------------------------------------
(* Sign extension, as each driver computes it. *)
Bmp581SignExtend(bits) == Signed32(IF 23 \in bits THEN bits \union (24..31) ELSE bits)

\* Half of the range is subtracted twice from values in its upper half.
Bmm350SignExtend(bits, width) ==
    LET half == 2^(width - 1)
        value == Unsigned(bits)
    IN  IF value >= half THEN value - half * 2 ELSE value

Bme690SignExtend(bits) ==
    LET value == Unsigned(bits) IN IF value > 2047 THEN value - 4096 ELSE value

\* Shifted to the top of a 32-bit word, then down again with the sign.
Mlx90640SignExtend(bits, width) ==
    LET shifted == ShiftUp(bits, 32 - width) \intersect (0..31)
    IN  Signed32(ShiftDown(shifted, 32 - width)
                 \union (IF 31 \in shifted THEN width..31 ELSE {}))

\* The casts to i8 and i16.
Cast(bits, width) == Unsigned(bits) - (IF width - 1 \in bits THEN 2^width ELSE 0)

ValueIn(driver, q, units) ==
    LET bits == Gathered(units, q.wires)
    IN  CASE ~q.signed -> Unsigned(bits)
          [] q.signed /\ driver = "bmp581" -> Bmp581SignExtend(bits)
          [] q.signed /\ driver = "bmm350" -> Bmm350SignExtend(bits, q.width)
          [] q.signed /\ driver = "mlx90640" -> Mlx90640SignExtend(bits, q.width)
          [] q.signed /\ driver = "bme690" /\ q.width = 12 -> Bme690SignExtend(bits)
          [] q.signed /\ driver = "bme690" /\ q.width # 12 -> Cast(bits, q.width)

--------------------------------------------------------------------------
(* MLX90640: a pixel's correction is a reference plus a row, a column and a  *)
(* remainder, each shifted by a scale of its own.                            *)
Mlx(q, units) == ValueIn("mlx90640", q, units)

Row(pixel) == pixel \div 32

\* Mutant of Column: the pixels are numbered down the columns.
ColumnDown(pixel) == pixel \div 24

Column(pixel) == pixel % 32
Quadrant(pixel) == 2 * (Row(pixel) % 2) + (pixel % 2)

Correction(parts, rows, columns, remainder, pixel, units) ==
    Mlx(parts.reference, units)
      + Mlx(Nibble(rows, Row(pixel)), units) * 2^Mlx(parts.row_scale, units)
      + Mlx(Nibble(columns, Column(pixel)), units) * 2^Mlx(parts.column_scale, units)
      + Mlx(remainder, units) * 2^Mlx(parts.remainder_scale, units)

PixelAlpha(pixel, units) ==
    Correction(Mlx90640Alpha, 34, 40, AlphaRemainder(pixel), pixel, units)
PixelOffset(pixel, units) ==
    Correction(Mlx90640Offset, 18, 24, OffsetRemainder(pixel), pixel, units)
PixelKta(pixel, units) ==
    Mlx(Mlx90640Kta.base[Quadrant(pixel) + 1], units)
      + Mlx(KtaRemainder(pixel), units) * 2^Mlx(Mlx90640Kta.remainder_scale, units)

(* The pixels listed as dead or out of tolerance, in the order they come.    *)
(* The lists are of fixed length; the tallies go on past their ends.         *)

Listed(list, pixel) == IF Len(list) < MaxDeviating THEN Append(list, pixel) ELSE list

DeviatingPixels(units) ==
    LET Tally(found, pixel) ==
            CASE units[pixel] = {} ->
                    [found EXCEPT !.broken = Listed(@, pixel), !.dead = @ + 1]
              [] units[pixel] # {} /\ 0 \in units[pixel] ->
                    [found EXCEPT !.outlier = Listed(@, pixel), !.off = @ + 1]
              [] OTHER -> found
    IN  FoldLeft(Tally, [broken |-> <<>>, outlier |-> <<>>, dead |-> 0, off |-> 0],
                 [i \in 1..PixelCount |-> i - 1])
Faulty(found) == found.dead > MaxDeviating \/ found.off > MaxDeviating
IsDeviating(found, pixel) ==
    pixel \in ToSet(found.broken) \union ToSet(found.outlier)

--------------------------------------------------------------------------
(* Sensirion answers: two bytes of data and a checksum for every word. *)
Crc8Polynomial == {0, 4, 5}
Crc8Init == 0..7

\* Mutant of Crc8Step: the bit that is shifted out is not looked at.
Crc8StepPlain(crc) == ShiftUp(crc, 1) \intersect (0..7)

Crc8Step(crc) ==
    LET shifted == ShiftUp(crc, 1) \intersect (0..7)
    IN  IF 7 \in crc THEN Xor(shifted, Crc8Polynomial) ELSE shifted

Crc8(data) ==
    LET Twice(crc) == Crc8Step(Crc8Step(crc))
        Byte(crc, byte) == Twice(Twice(Twice(Twice(Xor(crc, byte)))))
    IN  Byte(Byte(Crc8Init, data[1]), data[2])

\* How many words a read asks for.
AnswerWords ==
    [sht41 |-> 2, scd41_word |-> 1, scd41 |-> 3, sps30_flag |-> 1, sps30 |-> 20]

Chunk3(units, word) == <<units[3 * word], units[3 * word + 1], units[3 * word + 2]>>
WordIsGood(units, word) ==
    LET bytes == Chunk3(units, word) IN Crc8(SubSeq(bytes, 1, 2)) = bytes[3]

\* The words of an answer, or none of them if one is refused (Err(Crc)).
ReadWords(answer, units) ==
    IF \A word \in 0..AnswerWords[answer] - 1 : WordIsGood(units, word)
    THEN {[word \in 0..AnswerWords[answer] - 1 |-> SubSeq(Chunk3(units, word), 1, 2)]}
    ELSE {}

\* The sensor's side: the remainder of the data, its first byte inverted,
\* followed by eight zeros, divided by x^8 + x^5 + x^4 + 1.
Remainder[k \in 0..23] ==
    IF k < 8 THEN {k}
    ELSE LET up == ShiftUp(Remainder[k - 1], 1)
         IN  IF 8 \in up THEN Xor(up \ {8}, Crc8Polynomial) ELSE up
SensorCrc(high, low) ==
    LET message == ShiftUp(Xor(high, 0..7), 16) \union ShiftUp(low, 8)
    IN  {b \in 0..7 : Cardinality({k \in message : b \in Remainder[k]}) % 2 = 1}

--------------------------------------------------------------------------
(* The blocks that are read, and what may be different the next time. *)
PixelBlock == "mlx90640_pixels"

\* A result block of the BME690 counts only with its new-data bit set.
Always(name) == IF name = "bme690_field" THEN {<<0, 7>>} ELSE {}

Flip(units, address, bits) == [units EXCEPT ![address] = Xor(@, bits)]

Filled(name, bits) ==
    [u \in Layout[name].units |->
        bits \union {b[2] : b \in {b \in Always(name) : b[1] = u}}]
Zeros(name) == Filled(name, {})
Ones(name) == Filled(name, 0..Layout[name].width - 1)

\* What the sensor answers: word number and every other bit as the data.
Sent(answer) ==
    [u \in 0..3 * AnswerWords[answer] - 1 |->
        LET high == BitsOf(u \div 3)
            low == {0, 2, 4, 6}
        IN  <<high, low, SensorCrc(high, low)>>[(u % 3) + 1]]

ReadoutInit ==
    /\ changed = FALSE
    /\ \/ block \in Blocks /\ image \in {Zeros(block), Ones(block)}
       \/ block \in Answers /\ image = Sent(block)
       \/ block = PixelBlock /\ image = [p \in 0..PixelCount - 1 |-> {}]

\* One bit of the block is different.
AnotherBit ==
    /\ block \in Blocks /\ ~changed
    /\ \E u \in Layout[block].units, b \in 0..Layout[block].width - 1 :
        /\ <<u, b>> \notin Always(block)
        /\ image' = Flip(image, u, {b})
    /\ changed' = TRUE
    /\ UNCHANGED block

\* Errors a transfer may put into one word with its checksum: up to three
\* bits anywhere, or any within eight neighbouring ones.
Errors ==
    UNION {kSubset(k, 0..23) : k \in 1..3}
        \union {ShiftUp(burst, k) : burst \in SUBSET (0..7) \ {{}}, k \in 0..16}
Disturbed ==
    /\ block \in Answers /\ ~changed
    /\ \E word \in {0, AnswerWords[block] - 1}, error \in Errors :
        image' = [u \in DOMAIN image |->
                    IF u \div 3 = word
                    THEN Xor(image[u], {b - 8 * (2 - (u % 3)) :
                                b \in {b \in error : b \div 8 = 2 - (u % 3)}})
                    ELSE image[u]]
    /\ changed' = TRUE
    /\ UNCHANGED block

\* Another camera: a pixel is dead, out of tolerance or good.
AnotherPixel ==
    /\ block = PixelBlock
    /\ \E p \in 0..PixelCount - 1, word \in {{}, {0}, {0, 5}, {5}} :
        image' = [image EXCEPT ![p] = word]
    /\ changed' = TRUE
    /\ UNCHANGED block

ReadoutNext == AnotherBit \/ Disturbed \/ AnotherPixel

--------------------------------------------------------------------------
\* Every bit of a packed block counts once: one that is different changes at
\* most one quantity, by a power of two within its width, downwards only if
\* it is the sign; and with every bit set a signed quantity reads -1 and an
\* unsigned one its largest value, so that none of its bits is missing.
\* (from_bytes, from_otp, extract and the read_measurement functions.)
OneBitMoves(layout, up) ==
    LET moved == {q \in layout.quantities : Gathered(image, q.wires) # Gathered(image', q.wires)}
        Weight(q, k) == IF q.signed /\ k = q.width - 1 THEN -(2^k) ELSE 2^k
    IN  /\ Cardinality(moved) <= 1
        /\ \A q \in moved : \E k \in 0..q.width - 1 :
                ValueIn(layout.driver, q, image') - ValueIn(layout.driver, q, image)
                    = up * Weight(q, k)
FullScale(layout) ==
    \A q \in layout.quantities :
        ValueIn(layout.driver, q, image) = (IF q.signed THEN -1 ELSE 2^q.width - 1)
EachBitCountsOnce ==
    [][/\ block \in Blocks /\ image = Zeros(block) => OneBitMoves(Layout[block], 1)
       /\ block \in Blocks /\ image = Ones(block) =>
            OneBitMoves(Layout[block], -1) /\ FullScale(Layout[block])]_readoutVars

\* A row correction moves the pixels of its row alone, a column correction
\* those of its column, a base value those of its quadrant and a remainder
\* its own pixel, and all of them by the same amount.  (extract_alpha,
\* extract_offset, extract_kta: 768 values are rebuilt from shared words.)
InLine(moved, Line(_)) ==
    \A p, r \in Sampled :
        /\ Line(p) = Line(r) => moved[p] = moved[r]
        /\ moved[p] # 0 /\ moved[r] # 0 => Line(p) = Line(r)
Still(moved) == \A p \in Sampled : moved[p] = 0
LineMoves(word) ==
    LET alpha == [p \in Sampled |-> PixelAlpha(p, image') - PixelAlpha(p, image)]
        offset == [p \in Sampled |-> PixelOffset(p, image') - PixelOffset(p, image)]
        kta == [p \in Sampled |-> PixelKta(p, image') - PixelKta(p, image)]
        OfRow(p) == p \div 32
        OfColumn(p) == p % 32
        OfQuadrant(p) == <<OfRow(p) % 2, OfColumn(p) % 2>>
        Itself(p) == p
    IN  /\ word \in 18..31 => Still(alpha) /\ Still(kta)
        /\ word \in 34..47 => Still(offset) /\ Still(kta)
        /\ word \in 54..55 => Still(alpha) /\ Still(offset) /\ InLine(kta, OfQuadrant)
        /\ word \in 18..23 => InLine(offset, OfRow)
        /\ word \in 24..31 => InLine(offset, OfColumn)
        /\ word \in 34..39 => InLine(alpha, OfRow)
        /\ word \in 40..47 => InLine(alpha, OfColumn)
        /\ word >= 64 => InLine(alpha, Itself) /\ InLine(offset, Itself) /\ InLine(kta, Itself)
CorrectionsStayInTheirLine ==
    [][block = "mlx90640_eeprom" =>
        \A word \in DOMAIN image : image[word] # image'[word] => LineMoves(word)]_readoutVars

Dead == {p \in DOMAIN image : image[p] = {}}
Outliers == {p \in DOMAIN image : 0 \in image[p]}

\* The pixels an accepted camera treats as deviating are exactly those its
\* EEPROM marks, a camera is refused if either list would overflow, and none
\* is refused that has no more marked pixels, of both kinds together, than one
\* list holds.  (extract_deviating_pixels against is_deviating.)  In between,
\* with neither list overflowing, see FlaggedCountInTotal.
DeviatingAreKnown ==
    block = PixelBlock =>
        LET found == DeviatingPixels(image)
        IN  /\ ~Faulty(found) =>
                    \A p \in DOMAIN image : IsDeviating(found, p) <=> p \in Dead \union Outliers
            /\ Cardinality(Dead) > MaxDeviating \/ Cardinality(Outliers) > MaxDeviating
                    => Faulty(found)
            /\ Cardinality(Dead \union Outliers) <= MaxDeviating => ~Faulty(found)

\* What MAX_DEVIATING_PIXELS and TooManyDeviatingPixels are documented as, a
\* bound on the pixels flagged as broken or out of specification together.
\* The code compares each kind with it on its own, as the comment of
\* extract_deviating_pixels says: MCDriverDataDeviating.cfg finds a camera
\* with pixels of both kinds, too many in all, that is accepted.
FlaggedCountInTotal ==
    block = PixelBlock /\ Cardinality(Dead \union Outliers) > MaxDeviating
        => Faulty(DeviatingPixels(image))

\* An answer arrives as the sensor sent it, or not at all: whatever word a
\* short burst or up to three wrong bits hit, nothing of the answer is used.
\* (read_two_words, read_word, read_three_words, strip_crc.)
DisturbedIsRefused ==
    block \in Answers =>
        ReadWords(block, image)
            = IF changed THEN {}
              ELSE {[word \in 0..AnswerWords[block] - 1 |-> <<image[3 * word], image[3 * word + 1]>>]}

\* A disturbed answer is refused whole, and the pixels of a camera that cannot
\* be relied on are all known or the camera is refused.  How many pixels of
\* both kinds together it tolerates is FlaggedCountInTotal's.
OnlyGoodDataIsUsed == DeviatingAreKnown /\ DisturbedIsRefused
=============================================================================
