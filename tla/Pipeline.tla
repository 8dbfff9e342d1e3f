-------------------------------- MODULE Pipeline ------------------------------
(***************************************************************************)
(* from_shader_pass of runtime/direct3d9/driver.cpp: the parameters of a   *)
(* shader pass, render states first and sampler states then, become the    *)
(* descriptions of a Direct3D 11 pipeline.  The values of the guest are    *)
(* the numbers of d3d9_x.hpp; those of the host are its names.  A field    *)
(* that nobody wrote has no value here, and is zero in the code.           *)
(***************************************************************************)
EXTENDS Integers, TLC

CONSTANTS RenderParameters,   \* <<type, value>>
          SamplerParameters,  \* <<sampler, type, value>>
          MaxParameters       \* bound: parameters of a pass

VARIABLES phase,              \* which of the two arrays is read
          pipeline,           \* field -> host value; those of sampler s are <<s, field>>
          read,               \* how many parameters were read
          latest              \* history: parameter -> its last value

(* The types of render states are the code's own numbers, not the fields   *)
(* that they are written to, and a sampler has one of the sixteen below    *)
(* Pass.                                                                   *)
ASSUME PipelineAssumption ==
    /\ \A parameter \in RenderParameters : parameter[1] \notin {"Filter", "AlphaToCoverageEnable"}
    /\ \A parameter \in SamplerParameters : parameter[1] \in 0 .. 15

pipelineVars == <<phase, pipeline, read, latest>>

Pass == 16              \* in the place of a sampler, for the states of the pass

Either(value, names, default) == IF value \in DOMAIN names THEN names[value] ELSE default

to_comparison_func(value) ==
    Either(value, 0 :> "NEVER" @@ 1 :> "LESS" @@ 2 :> "EQUAL" @@ 3 :> "LESS_EQUAL" @@ 4 :> "GREATER"
                  @@ 5 :> "NOT_EQUAL" @@ 6 :> "GREATER_EQUAL", "ALWAYS")
to_depth_write_mask(value) == IF value # 0 THEN "ALL" ELSE "ZERO"
to_fill_mode(value) == IF value \in {1, 37} THEN "WIREFRAME" ELSE "SOLID"
to_cull_mode(value) == Either(value, 2 :> "BACK" @@ 6 :> "FRONT", "NONE")
to_blend(value) ==
    Either(value, 0 :> "ZERO" @@ 1 :> "ONE" @@ 4 :> "SRC_COLOR" @@ 5 :> "INV_SRC_COLOR"
                  @@ 6 :> "SRC_ALPHA" @@ 7 :> "INV_SRC_ALPHA" @@ 8 :> "DEST_COLOR"
                  @@ 9 :> "INV_DEST_COLOR" @@ 10 :> "DEST_ALPHA" @@ 11 :> "INV_DEST_ALPHA"
                  @@ 16 :> "SRC_ALPHA_SAT", "ONE")
to_blend_op(value) ==
    Either(value, 1 :> "SUBTRACT" @@ 2 :> "MIN" @@ 3 :> "MAX" @@ 4 :> "REV_SUBTRACT", "ADD")
to_stencil_op(value) ==
    Either(value, 1 :> "ZERO" @@ 2 :> "REPLACE" @@ 3 :> "INCR_SAT" @@ 4 :> "DECR_SAT"
                  @@ 5 :> "INVERT" @@ 6 :> "INCR" @@ 7 :> "DECR", "KEEP")

(* No default: for another value the function ends without a return, and   *)
(* what its caller gets is whatever the build leaves there.                *)
AddressModes == {"WRAP", "MIRROR", "CLAMP", "BORDER", "MIRROR_ONCE"}
to_texture_addr(value) ==
    LET known == 0 :> "WRAP" @@ 1 :> "MIRROR" @@ 2 :> "CLAMP" @@ 6 :> "BORDER" @@ 3 :> "MIRROR_ONCE"
    IN  IF value \in DOMAIN known THEN {known[value]} ELSE AddressModes \cup {"garbage"}

to_filter_type(value) == IF value \in {0, 2} THEN 0 ELSE 1

(* D3D11_ENCODE_BASIC_FILTER and the DECODE macros of the host: two bits   *)
(* for each of the three filters of a sampler.                             *)
Encode(min, mag, mip) == 16 * min + 4 * mag + mip
DecodeMin(filter) == (filter \div 16) % 4
DecodeMag(filter) == (filter \div 4) % 4
DecodeMip(filter) == filter % 4

(* An assignment to a field, there before or not.                          *)
Put(fields, key, value) ==
    [k \in {key} \cup DOMAIN fields |-> IF k = key THEN value ELSE fields[k]]

-----------------------------------------------------------------------------
(* The field that a render state is about, and what is written there.      *)
RenderField(type) ==
    CASE type = "TWOSIDEDSTENCILMODE" -> "STENCILENABLE"
      [] type = "ALPHABLENDENABLE" -> "AlphaToCoverageEnable"
      [] OTHER -> type

Ignored == {"ALPHATESTENABLE", "ALPHAREF", "ALPHAFUNC", "CCW_STENCILMASK", "CCW_STENCILWRITEMASK",
            "CLIPPLANEENABLE", "SCISSORTESTENABLE", "DEPTHBIAS", "COLORWRITEENABLE"}

RenderValue(type, value) ==
    CASE type \in {"ZFUNC", "STENCILFUNC", "CCW_STENCILFUNC"} -> to_comparison_func(value)
      [] type = "ZWRITEENABLE" -> to_depth_write_mask(value)
      [] type = "FILLMODE" -> to_fill_mode(value)
      [] type = "CULLMODE" -> to_cull_mode(value)
      [] type \in {"SRCBLEND", "DESTBLEND", "SRCBLENDALPHA", "DESTBLENDALPHA"} -> to_blend(value)
      [] type \in {"BLENDOP", "BLENDOPALPHA"} -> to_blend_op(value)
      [] type \in {"STENCILFAIL", "STENCILZFAIL", "STENCILPASS", "CCW_STENCILFAIL", "CCW_STENCILZFAIL",
                   "CCW_STENCILPASS"} -> to_stencil_op(value)
      [] type \in {"STENCILENABLE", "TWOSIDEDSTENCILMODE"} -> value # 0
      [] type \in {"STENCILMASK", "STENCILWRITEMASK"} -> value % 256
      [] OTHER -> value

ReadRenderState(type, value) ==
    /\ phase = "render"
    /\ read < MaxParameters
    /\ read' = read + 1
    /\ latest' = Put(latest, <<Pass, type>>, value)
    /\ pipeline' = IF type \in Ignored THEN pipeline
                   ELSE Put(pipeline, <<Pass, RenderField(type)>>, RenderValue(type, value))
    /\ UNCHANGED phase

BeginSamplers ==
    /\ phase = "render"
    /\ phase' = "samplers"
    /\ UNCHANGED <<pipeline, read, latest>>

-----------------------------------------------------------------------------
(* A sampler's three filters are in one field, of which two are kept.      *)
FilterOf(sampler) == IF <<sampler, "Filter">> \in DOMAIN pipeline THEN pipeline[<<sampler, "Filter">>] ELSE 0

(* A bug the code could have: the magnification's place is the mip's.      *)
WithFilterMixed(filter, type, new) ==
    CASE type = "MAGFILTER" -> Encode(DecodeMin(filter), new, DecodeMag(filter))
      [] type = "MINFILTER" -> Encode(new, DecodeMag(filter), DecodeMip(filter))
      [] type = "MIPFILTER" -> Encode(DecodeMin(filter), DecodeMag(filter), new)

WithFilter(filter, type, new) ==
    CASE type = "MAGFILTER" -> Encode(DecodeMin(filter), new, DecodeMip(filter))
      [] type = "MINFILTER" -> Encode(new, DecodeMag(filter), DecodeMip(filter))
      [] type = "MIPFILTER" -> Encode(DecodeMin(filter), DecodeMag(filter), new)

ReadSamplerState(sampler, type, value) ==
    /\ phase = "samplers"
    /\ read < MaxParameters
    /\ read' = read + 1
    /\ latest' = Put(latest, <<sampler, type>>, value)
    /\ \/ /\ type \in {"MAGFILTER", "MINFILTER", "MIPFILTER"}
          /\ pipeline' = Put(pipeline, <<sampler, "Filter">>,
                             WithFilter(FilterOf(sampler), type, to_filter_type(value)))
       \/ /\ type \in {"ADDRESSU", "ADDRESSV", "ADDRESSW"}
          /\ \E mode \in to_texture_addr(value) : pipeline' = Put(pipeline, <<sampler, type>>, mode)
       \/ /\ type \in {"BORDERCOLOR", "MIPMAPLODBIAS", "MAXMIPLEVEL", "MAXANISOTROPY", "MINMIPLEVEL"}
          /\ pipeline' = Put(pipeline, <<sampler, type>>, value)
       \/ /\ type \in {"MAGFILTERZ", "MINFILTERZ", "TRILINEARTHRESHOLD", "POINTBORDERENABLE"}
          /\ UNCHANGED pipeline
    /\ UNCHANGED phase

PipelineInit == phase = "render" /\ pipeline = << >> /\ read = 0 /\ latest = << >>

PipelineNext ==
    \/ \E parameter \in RenderParameters : ReadRenderState(parameter[1], parameter[2])
    \/ BeginSamplers
    \/ \E parameter \in SamplerParameters : ReadSamplerState(parameter[1], parameter[2], parameter[3])

PipelineSpec == PipelineInit /\ [][PipelineNext]_pipelineVars

-----------------------------------------------------------------------------
(* Parameters that are about different things do not disturb each other,   *)
(* in any order: each filter of each sampler is the one that was last      *)
(* asked for, and POINT if none was, although the three share a number;    *)
(* every other state has its last value, and what no parameter is about is *)
(* clear.  Only the two that enable the stencil test write one field.      *)
Asked(sampler, type) ==
    IF <<sampler, type>> \in DOMAIN latest THEN to_filter_type(latest[<<sampler, type>>]) ELSE 0

StatesAreIndependent ==
    /\ \A key \in DOMAIN pipeline :
         key[2] = "Filter" =>
            /\ DecodeMin(pipeline[key]) = Asked(key[1], "MINFILTER")
            /\ DecodeMag(pipeline[key]) = Asked(key[1], "MAGFILTER")
            /\ DecodeMip(pipeline[key]) = Asked(key[1], "MIPFILTER")
    /\ \A key \in DOMAIN pipeline :
         key[2] # "Filter" =>
            LET type == IF key[2] = "AlphaToCoverageEnable" THEN "ALPHABLENDENABLE" ELSE key[2]
                same == {<<key[1], type>>} \cup
                        IF type = "STENCILENABLE" THEN {<<Pass, "TWOSIDEDSTENCILMODE">>} ELSE {}
            IN  \E source \in same \cap DOMAIN latest :
                   IF key[1] = Pass THEN pipeline[key] = RenderValue(type, latest[source])
                   ELSE IF type \in {"ADDRESSU", "ADDRESSV", "ADDRESSW"}
                   THEN pipeline[key] \in to_texture_addr(latest[source])
                   ELSE pipeline[key] = latest[source]
    /\ \A asked \in DOMAIN latest :
         asked[1] = Pass /\ asked[2] \notin Ignored => <<Pass, RenderField(asked[2])>> \in DOMAIN pipeline

=============================================================================
