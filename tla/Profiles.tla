------------------------------ MODULE Profiles ------------------------------
(***************************************************************************)
(* The shipped profiles: src/aslmp/profiles/.  Ranges are device numbers,  *)
(* budgets are keyed by <<command, encoding, unit, link>>, and a model     *)
(* code is the number the CPU answers Read Type Name with.                 *)
(***************************************************************************)
EXTENDS Profile

Each(keys, value) == [k \in keys |-> value]

-----------------------------------------------------------------------------
(***************************************************************************)
(* iQ-F.                                                                   *)
(***************************************************************************)

IQF_PRESENT ==
    Each({Device_X, Device_Y, Device_TS, Device_TC, Device_TN, Device_STS,
             Device_STC, Device_STN, Device_CS, Device_CC, Device_CN, Device_LCS,
             Device_LCC, Device_LCN}, DeviceRange(0, 1023))
    @@ Each({Device_M, Device_L, Device_F, Device_B, Device_SB, Device_W,
             Device_SW, Device_R}, DeviceRange(0, 32767))
    @@ Each({Device_S}, DeviceRange(0, 4095))
    @@ Each({Device_SM}, DeviceRange(0, 9999))
    @@ Each({Device_SD}, DeviceRange(0, 11999))
    @@ Each({Device_Z}, DeviceRange(0, 23))
    @@ Each({Device_LZ}, DeviceRange(0, 11))
    @@ Each({Device_D}, DeviceRange(0, 7999))

\* fx5uj.py overrides nineteen rows.
SmallerUJ ==
    Each({Device_M, Device_L}, DeviceRange(0, 7679))
    @@ Each({Device_F}, DeviceRange(0, 127))
    @@ Each({Device_B, Device_SB}, DeviceRange(0, 2047))
    @@ Each({Device_TS, Device_TC, Device_TN}, DeviceRange(0, 511))
    @@ Each({Device_STS, Device_STC, Device_STN}, DeviceRange(0, 15))
    @@ Each({Device_CS, Device_CC, Device_CN}, DeviceRange(0, 255))
    @@ Each({Device_LCS, Device_LCC, Device_LCN}, DeviceRange(0, 63))
    @@ Each({Device_W, Device_SW}, DeviceRange(0, 1023))
FX5UJ_PRESENT == SmallerUJ @@ IQF_PRESENT

IQF_ABSENT ==
    Each({Device_V, Device_ZR, Device_DX, Device_DY, Device_LTS, Device_LTC,
             Device_LTN, Device_LSTS, Device_LSTC, Device_LSTN, Device_RD,
             Device_BL}, Absent)

\* `build_iqf_devices`: G depends on the module that is mounted.
IQFDevices(present) == present @@ IQF_ABSENT @@ Each({Device_G}, NoStaticRange)

ReadAndWriteBatch(enc, link, word, bit) ==
    Each({1025, 5121} \X {enc} \X {"word"} \X {link}, Flat(word))
    @@ Each({1025, 5121} \X {enc} \X {"bit"} \X {link}, Flat(bit))

\* `build_iqf_limits`: every byte costs two characters in ASCII.
IQFLimits ==
    LET at(command, enc, unit, rule) == Each({<<command, enc, unit, "cpu">>}, rule)
        binary == ReadAndWriteBatch("binary", "cpu", 960, 3584)
                  @@ at(1027, "binary", "word", Flat(192))
                  @@ at(5122, "binary", "word", Weighted(12, 14, 1920))
                  @@ at(5122, "binary", "bit", Flat(188))
                  @@ at(1030, "binary", "word", BlockRule(120, 0, 960))
                  @@ at(5126, "binary", "word", BlockRule(120, 4, 760))
        ascii(enc) == ReadAndWriteBatch(enc, "cpu", 480, 1792)
                      @@ at(1027, enc, "word", Flat(96))
                      @@ at(5122, enc, "word", Weighted(24, 28, 1920))
                      @@ at(5122, enc, "bit", Flat(94))
                      @@ at(1030, enc, "word", BlockRule(60, 0, 960))
                      @@ at(5126, enc, "word", BlockRule(60, 4, 760))
        module == Each({<<5121, "binary", "word", "enet">>}, Flat(949))
                  @@ Each({<<1027, "binary", "word", "enet">>}, Flat(123))
    IN  binary @@ ascii("ascii-xy-oct") @@ ascii("ascii-xy-hex") @@ module

\* `build_iqf_capabilities`.
IQFCapabilities == Capability \ {"monitor", "long-device-spec"}

IQFProfile(key, present, codes) ==
    [key |-> key, family |-> "iq-f", model_codes |-> codes,
     devices |-> IQFDevices(present),
     radix_overrides |-> Each({Device_X, Device_Y}, OCTAL),
     limits |-> IQFLimits,
     capabilities |-> IQFCapabilities,
     allowed_encodings |-> Encoding,
     remote_fixed_field |-> <<0, 0>>,
     allowed_clear_modes |-> {NONE}]

FX5U_CODES ==
    {18977, 18979, 18980, 18985, 18987, 18988, 18993, 18995, 18996, 19009,
     19011, 19012, 19017, 19019, 19020, 19025, 19027, 19028}
FX5UC_CODES ==
    {19089, 19090, 19091, 19097, 19098, 19099, 19113, 19121, 19129}
FX5UJ_CODES ==
    {19213, 19214, 19215, 19220, 19221, 19222, 19227, 19228, 19229}
FX5S_CODES ==
    {19278, 19279, 19280, 19281, 19285, 19286, 19287, 19288, 19292, 19293,
     19294, 19295}

FX5U  == IQFProfile("melsec:iq-f/fx5u", IQF_PRESENT, FX5U_CODES)
FX5UC == IQFProfile("melsec:iq-f/fx5uc", IQF_PRESENT, FX5UC_CODES)
FX5UJ == IQFProfile("melsec:iq-f/fx5uj", FX5UJ_PRESENT, FX5UJ_CODES)
FX5S  == IQFProfile("melsec:iq-f/fx5s", IQF_PRESENT, FX5S_CODES)

-----------------------------------------------------------------------------
(***************************************************************************)
(* iQ-R, and the SLMP reference that Q and L share.                        *)
(***************************************************************************)

R00_PRESENT ==
    Each({Device_X, Device_Y, Device_M, Device_B, Device_L, Device_W}, DeviceRange(0, 8191))
    @@ Each({Device_SB, Device_F, Device_V, Device_SW}, DeviceRange(0, 2047))
    @@ Each({Device_D}, DeviceRange(0, 18431))
    @@ Each({Device_SM, Device_SD}, DeviceRange(0, 4095))
    @@ Each({Device_TS, Device_TC, Device_TN, Device_LTS, Device_LTC, Device_LTN}, DeviceRange(0, 1023))
    @@ Each({Device_CS, Device_CC, Device_CN, Device_LCS, Device_LCC, Device_LCN}, DeviceRange(0, 511))
    @@ Each({Device_Z}, DeviceRange(0, 19))
    @@ Each({Device_LZ}, DeviceRange(0, 1))

LargerR04 ==
    Each({Device_X, Device_Y, Device_M}, DeviceRange(0, 12287))
R04_PRESENT == LargerR04 @@ R00_PRESENT

ZeroPoints ==
    Each({Device_S, Device_STS, Device_STC, Device_STN, Device_LSTS,
             Device_LSTC, Device_LSTN, Device_R, Device_ZR}, Unallocated)

WithoutRange ==
    Each({Device_DX, Device_DY, Device_RD, Device_G, Device_BL}, NoStaticRange)

\* `build_iqr_devices`: no family is absent on an iQ-R.
IQRDevices(present) == present @@ ZeroPoints @@ WithoutRange

\* `build_slmp_ref_limits`: no row for a module, and none in ASCII but the batch ones.
SlmpRefLimits ==
    ReadAndWriteBatch("binary", "cpu", 960, 7168)
    @@ ReadAndWriteBatch("ascii-xy-hex", "cpu", 960, 3584)
    @@ Each({<<1027, "binary", "word", "cpu">>}, Flat(192))
    @@ Each({<<5122, "binary", "word", "cpu">>}, Weighted(12, 14, 1920))
    @@ Each({<<5122, "binary", "bit", "cpu">>}, Flat(188))
    @@ Each({<<1030, "binary", "word", "cpu">>}, BlockRule(120, 0, 960))

\* `build_slmp_ref_capabilities`: what a family adds is its argument.
SlmpRefCapabilities(extra) == (Capability \ {"monitor", "long-device-spec"}) \cup extra

SlmpRefProfile(key, family, devices, capabilities, codes) ==
    [key |-> key, family |-> family, model_codes |-> codes,
     devices |-> devices,
     radix_overrides |-> <<>>,
     limits |-> SlmpRefLimits,
     capabilities |-> capabilities,
     allowed_encodings |-> {"binary", "ascii-xy-hex"},
     remote_fixed_field |-> <<1, 0>>,
     allowed_clear_modes |-> {NONE, EXCEPT_LATCH, INCLUDING_LATCH}]

IQRProfile(key, present, codes) ==
    SlmpRefProfile(key, "iq-r", IQRDevices(present),
                   SlmpRefCapabilities({"monitor", "long-device-spec"}), codes)

IQ_R_CODES ==
    {18432, 18433, 18434, 18435, 18436, 18437, 18438, 18439, 18440, 18441,
     18464, 18497, 18498, 18499, 18500, 18513, 18514, 18515, 18516, 18577,
     18578, 18579, 18580, 18592, 18593, 18594}
IQR_R00_CODES ==
    {18592, 18593, 18594}

IQ_R    == IQRProfile("melsec:iq-r", R04_PRESENT, IQ_R_CODES)
IQR_R00 == IQRProfile("melsec:iq-r/r00", R00_PRESENT, IQR_R00_CODES)

\* `build_legacy_devices`: presence without spans.
LegacyDevices ==
    [dt \in DEVICE_TABLE |-> IF dt = Device_BL \/ LongOnly(dt) THEN Absent ELSE NoStaticRange]

LegacyProfile(key, family, codes) ==
    SlmpRefProfile(key, family, LegacyDevices, SlmpRefCapabilities({"monitor"}), codes)

Q_CODES ==
    {65, 66, 67, 68, 560, 592, 593, 594, 616, 617, 618, 870, 871, 872}
L_CODES ==
    {1345, 1346, 1347, 1348, 1349}

Q == LegacyProfile("melsec:q", "q", Q_CODES)
L == LegacyProfile("melsec:l", "l", L_CODES)

-----------------------------------------------------------------------------
(***************************************************************************)
(* The registry.                                                           *)
(***************************************************************************)

ALL == {FX5U, FX5UC, FX5UJ, FX5S, IQ_R, IQR_R00, Q, L}

\* IQR_R00 claims codes that IQ_R owns: a lookup has one answer.
ModelCodeOwners == ALL \ {IQR_R00}

\* `by_key`: the name in full; no such profile is a refusal.
ByKey(key) == {p \in ALL : p.key = key}

\* `by_model_code`: never a fallback.
ByModelCode(code) == {p \in ModelCodeOwners : code \in p.model_codes}
Claiming(code) == {p \in ALL : code \in p.model_codes}

\* `_build_registry` and `_build_model_codes`: every profile shipped is one without a hole,
\* a key names one, and a model code that any accepts has one owner.
ASSUME RegistryAssumption ==
    \A p \in ALL :
        /\ IsProfile(p)
        /\ ByKey(p.key) = {p}
        /\ \A code \in p.model_codes :
              \E owner \in Claiming(code) : ByModelCode(code) = {owner}
=============================================================================
