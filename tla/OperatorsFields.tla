------------------------------ MODULE OperatorsFields ------------------------------
(***************************************************************************)
(* The operators on two or more fields: advection, coupling, measurement,  *)
(* the Laplacian, neural, nonlinear, reaction, copy and scale, of          *)
(* core/src/operators, in the vocabulary of OperatorKinds.                 *)
(***************************************************************************)
EXTENDS OperatorKinds


\* curl
curl_validate_fields == Same({"x", "y", "output"})
curl_resolve_axes == {<<"surface", {"x", "y", "output"}>>}
curl_accepts ==
  curl_validate_fields \cup curl_resolve_axes \cup {<<"apart", {"x", "output"}>>, <<"apart",
    {"y", "output"}>>}
curl_normalize_config == Defaulted
curl_apply ==
  Step({"x", "y", "output"}, {"output"}, curl_validate_fields \cup curl_resolve_axes, "never")
sim_add_curl_operator == Add({"x", "y", "output"}, {"output"}, curl_accepts, NoKernel)
sim_curl_update == Silent(CheckedUpdate(curl_accepts))
curl ==
  Kind({"x", "y", "output"}, curl_normalize_config, curl_normalize_config, curl_apply,
    sim_add_curl_operator, sim_curl_update, Stateless)

\* divergence
divergence_validate_fields == Same({"x", "y", "output"})
divergence_resolve_axes == {<<"surface", {"x", "y", "output"}>>}
divergence_accepts ==
  divergence_validate_fields \cup divergence_resolve_axes \cup {<<"apart", {"x", "output"}>>,
    <<"apart", {"y", "output"}>>}
divergence_normalize_config == Defaulted
divergence_apply ==
  Step({"x", "y", "output"}, {"output"},
    divergence_validate_fields \cup divergence_resolve_axes, "never")
sim_add_divergence_operator ==
  Add({"x", "y", "output"}, {"output"}, divergence_accepts, NoKernel)
sim_divergence_update == Silent(CheckedUpdate(divergence_accepts))
divergence ==
  Kind({"x", "y", "output"}, divergence_normalize_config, divergence_normalize_config,
    divergence_apply, sim_add_divergence_operator, sim_divergence_update, Stateless)

\* gradient
gradient_validate_fields == Same({"input", "output_x", "output_y"})
gradient_resolve_axes == {<<"surface", {"input", "output_x", "output_y"}>>}
gradient_accepts ==
  gradient_validate_fields \cup gradient_resolve_axes \cup {<<"apart", {"input", "output_x",
    "output_y"}>>}
gradient_normalize_config == Defaulted
gradient_apply ==
  Step({"input", "output_x", "output_y"}, {"output_x", "output_y"},
    gradient_validate_fields \cup gradient_resolve_axes, "never")
sim_add_gradient_operator ==
  Add({"input", "output_x", "output_y"}, {"output_x", "output_y"}, gradient_accepts, NoKernel)
sim_gradient_update == Silent(CheckedUpdate(gradient_accepts))
gradient ==
  Kind({"input", "output_x", "output_y"}, gradient_normalize_config,
    gradient_normalize_config, gradient_apply, sim_add_gradient_operator,
    sim_gradient_update, Stateless)

\* spatial_derivative
spatial_derivative_validate_fields ==
  Same({"input", "output"}) \cup {<<"apart", {"input", "output"}>>, <<"planar", {"input",
    "output"}>>}
spatial_derivative_normalize_config == Defaulted
spatial_derivative_step ==
  Step({"input"}, {"output"}, spatial_derivative_validate_fields, "never")
sim_add_spatial_derivative_operator ==
  Add({"input"}, {"output"}, spatial_derivative_validate_fields, Kernel({"input"},
    {"output"}, "baked"))
sim_spatial_derivative_update == CheckedUpdate(spatial_derivative_validate_fields)
spatial_derivative ==
  Kind({"input", "output"}, spatial_derivative_normalize_config,
    spatial_derivative_normalize_config, spatial_derivative_step,
    sim_add_spatial_derivative_operator, sim_spatial_derivative_update, Stateless)

\* mask_apply
mask_validate_fields == {<<"storage", {"input", "output"}>>}
mask_normalize_config == Defaulted
mask_apply ==
  Step({"input", "mask", "output"}, {"output"}, mask_validate_fields \cup {<<"size",
    {"input", "mask", "output"}>>}, "never")
sim_add_mask_operator ==
  Add({"input", "mask", "output"}, {"output"}, mask_validate_fields, NoKernel)
sim_mask_update == CheckedUpdate(mask_validate_fields)
mask ==
  Kind({"input", "mask", "output"}, mask_normalize_config, mask_normalize_config, mask_apply,
    sim_add_mask_operator, sim_mask_update, Stateless)

\* metal_mix
metal_mix_normalize_config == Defaulted
metal_mix_apply ==
  Step({"lhs", "rhs", "output"}, {"output"}, {<<"size", {"lhs", "rhs", "output"}>>, <<"wide",
    {"lhs", "rhs"}>>}, "never")
\* A mutant: The kernel takes its constants from the registration.
add_metal_mix_baked ==
  Add({"lhs", "rhs", "output"}, {"output"}, {}, Kernel({"lhs", "rhs"}, {"output"}, "baked"))
sim_add_metal_mix_operator ==
  Add({"lhs", "rhs", "output"}, {"output"}, {}, Kernel({"lhs", "rhs"}, {"output"}, "patched"))
sim_metal_mix_update == Update("pinned", "never", {})
metal_mix ==
  Kind({"lhs", "rhs", "output"}, metal_mix_normalize_config, metal_mix_normalize_config,
    metal_mix_apply, sim_add_metal_mix_operator, sim_metal_mix_update, Stateless)

\* mixer
mixer_validate_fields == {<<"size", {"lhs", "rhs", "output"}>>, <<"wide", {"lhs", "rhs"}>>}
mixer_normalize_config == Defaulted
mixer_apply == Step({"lhs", "rhs", "output"}, {"output"}, mixer_validate_fields, "never")
sim_add_mixer_operator ==
  [Add({"lhs", "rhs", "output"}, {"output"}, mixer_validate_fields, Kernel({"lhs", "rhs"},
    {"output"}, "baked")) EXCEPT !.substeps = 3]
sim_mixer_update == CheckedUpdate(mixer_validate_fields)
mixer ==
  Kind({"lhs", "rhs", "output"}, mixer_normalize_config, mixer_normalize_config, mixer_apply,
    sim_add_mixer_operator, sim_mixer_update, Stateless)

\* segmented_sieve_mark
segmented_sieve_mark_validate_fields ==
  {<<"size", {"input", "output"}>>, <<"real", {"input", "output"}>>}
segmented_sieve_mark_apply ==
  Step({"input", "output"}, {"output"}, segmented_sieve_mark_validate_fields, "never")
sim_add_segmented_sieve_mark_operator ==
  Add({"input", "output"}, {"output"}, segmented_sieve_mark_validate_fields, NoKernel)
sim_segmented_sieve_mark_update == CheckedUpdate(segmented_sieve_mark_validate_fields)
segmented_sieve_mark ==
  Kind({"input", "output"}, Defaulted, Defaulted, segmented_sieve_mark_apply,
    sim_add_segmented_sieve_mark_operator, sim_segmented_sieve_mark_update, Stateless)

\* segmented_sieve_mark_batch
segmented_sieve_mark_batch_validate_fields ==
  {<<"real", {"candidate", "primes", "flags"}>>, <<"size", {"candidate", "flags"}>>}
segmented_sieve_mark_batch_apply ==
  Step({"candidate", "primes", "flags"}, {"flags"},
    segmented_sieve_mark_batch_validate_fields, "never")
sim_add_segmented_sieve_mark_batch_operator ==
  Add({"candidate", "primes", "flags"}, {"flags"},
    segmented_sieve_mark_batch_validate_fields, NoKernel)
sim_segmented_sieve_mark_batch_update ==
  CheckedUpdate(segmented_sieve_mark_batch_validate_fields)
segmented_sieve_mark_batch ==
  Kind({"candidate", "primes", "flags"}, Defaulted, Defaulted,
    segmented_sieve_mark_batch_apply, sim_add_segmented_sieve_mark_batch_operator,
    sim_segmented_sieve_mark_batch_update, Stateless)

\* laplacian
laplacian_validate_fields == Same({"input", "output"})
laplacian_resolve_axes == {<<"surface", {"input", "output"}>>}
laplacian_accepts ==
  laplacian_validate_fields \cup laplacian_resolve_axes \cup {<<"apart", {"input",
    "output"}>>}
laplacian_normalize_config == Defaulted
laplacian_apply ==
  Step({"input", "output"}, {"output"},
    laplacian_validate_fields \cup laplacian_resolve_axes, "never")
sim_add_laplacian_operator == Add({"input", "output"}, {"output"}, laplacian_accepts, NoKernel)
sim_laplacian_update == Silent(CheckedUpdate(laplacian_accepts))
laplacian ==
  Kind({"input", "output"}, laplacian_normalize_config, laplacian_normalize_config,
    laplacian_apply, sim_add_laplacian_operator, sim_laplacian_update, Stateless)

\* minimal_convolution
minimal_convolution_validate_fields ==
  Same({"input", "output"}) \cup {<<"apart", {"input", "output"}>>, <<"planar", {"input",
    "output"}>>}
minimal_convolution_build_kernel_cache == "lazy"
minimal_convolution_kernel_samples == {"samples"}
minimal_convolution_ir_eval == Kernel({"input", "output"}, {"output"}, "live")
minimal_convolution_normalize_config == Defaulted
minimal_convolution_evaluate ==
  Step({"input"}, {"output"}, minimal_convolution_validate_fields, "never")
sim_add_minimal_convolution_operator ==
  Add({"input"}, {"output"}, minimal_convolution_validate_fields, minimal_convolution_ir_eval)
sim_minimal_convolution_update ==
  Resetting(CheckedUpdate(minimal_convolution_validate_fields),
            minimal_convolution_kernel_samples)
minimal_convolution ==
  Kind({"input", "output"}, minimal_convolution_normalize_config,
    minimal_convolution_normalize_config, minimal_convolution_evaluate,
    sim_add_minimal_convolution_operator, sim_minimal_convolution_update,
    Memory(minimal_convolution_kernel_samples, {}, minimal_convolution_build_kernel_cache))

\* phase_feature
phase_feature_normalize_config == Defaulted
phase_feature_apply == Step({"input", "output"}, {"output"}, Same({"input", "output"}), "never")
sim_add_phase_feature_operator ==
  Add({"input", "output"}, {"output"}, {}, Kernel({"input"}, {"output"}, "baked"))
sim_phase_feature_update == Retarget
phase_feature ==
  Kind({"input", "output"}, phase_feature_normalize_config, phase_feature_normalize_config,
    phase_feature_apply, sim_add_phase_feature_operator, sim_phase_feature_update, Stateless)

\* sieve
sieve_rebuild_kernel == "eager"
sieve_normalize_config == Defaulted
sieve_apply == Step({"input", "output"}, {"output"}, Same({"input", "output"}), "never")
sim_add_sieve_operator == Add({"input", "output"}, {"output"}, {}, NoKernel)
sim_sieve_update == Allocating(Retarget, "after")
sieve ==
  Kind({"input", "output"}, sieve_normalize_config, sieve_normalize_config, sieve_apply,
    sim_add_sieve_operator, sim_sieve_update, Deriving(sieve_rebuild_kernel))

\* sound_observation
sound_observation_normalize_config == Defaulted
sound_observation_apply == [Step({"left", "right"}, {}, {}, "never") EXCEPT !.drifts = FALSE]
sim_add_sound_observation_operator == Add({"left", "right"}, {}, {}, NoKernel)
sim_sound_observation_update == Retarget
sound_observation ==
  Kind({"left", "right"}, sound_observation_normalize_config,
    sound_observation_normalize_config, sound_observation_apply,
    sim_add_sound_observation_operator, sim_sound_observation_update, Stateless)

\* neural_hybrid
neural_hybrid_fields_compatible == Same({"input", "output"})
neural_hybrid_normalize_config == Defaulted
neural_hybrid_step ==
  Step({"input", "output"}, {"output"}, neural_hybrid_fields_compatible, "never")
sim_add_neural_hybrid_operator ==
  Add({"input", "output"}, {"output"}, neural_hybrid_fields_compatible, NoKernel)
sim_neural_hybrid_update == Silent(CheckedUpdate(neural_hybrid_fields_compatible))
neural_hybrid ==
  Kind({"input", "output"}, neural_hybrid_normalize_config, neural_hybrid_normalize_config,
    neural_hybrid_step, sim_add_neural_hybrid_operator, sim_neural_hybrid_update, Stateless)

\* neural_infer
neural_fields_compatible == Same({"input", "output"})
neural_infer_normalize_config == Defaulted
neural_infer_step == Step({"input", "output"}, {"output"}, neural_fields_compatible, "never")
sim_add_neural_infer_operator ==
  Add({"input", "output"}, {"output"}, neural_fields_compatible, NoKernel)
sim_neural_infer_update == Silent(CheckedUpdate(neural_fields_compatible))
neural_infer ==
  Kind({"input", "output"}, neural_infer_normalize_config, neural_infer_normalize_config,
    neural_infer_step, sim_add_neural_infer_operator, sim_neural_infer_update, Stateless)

\* chaos_map
chaos_map_describe_io_fields == Same({"input", "output"})
chaos_map_prepare_param_field == {<<"size", {"output", "param"}>>}
chaos_map_normalize_config == Defaulted
chaos_map_apply ==
  Step({"input", "output", "param"}, {"output"},
    chaos_map_describe_io_fields \cup chaos_map_prepare_param_field, "never")
sim_add_chaos_map_operator ==
  Add({"input", "output"}, {"output"}, chaos_map_describe_io_fields, NoKernel)
sim_chaos_map_update == Silent(Retarget)
chaos_map ==
  Kind({"input", "output", "param"}, chaos_map_normalize_config, chaos_map_normalize_config,
    chaos_map_apply, sim_add_chaos_map_operator, sim_chaos_map_update, Stateless)

\* complex_math
complex_math_normalize_config == Defaulted
complex_math_apply ==
  Step({"lhs", "rhs", "output"}, {"output"}, {<<"size", {"lhs", "rhs", "output"}>>}, "never")
sim_add_complex_math_operator == Add({"lhs", "rhs", "output"}, {"output"}, {}, NoKernel)
sim_complex_math_update == Silent(Retarget)
complex_math ==
  Kind({"lhs", "rhs", "output"}, complex_math_normalize_config,
    complex_math_normalize_config, complex_math_apply, sim_add_complex_math_operator,
    sim_complex_math_update, Stateless)

\* hysteretic
hysteretic_describe_fields == Same({"input", "output"})
hysteretic_prepare_state == {"history"}
hysteretic_initialize_state == {"history"}
hysteretic_save == {"history"}
hysteretic_restore == hysteretic_save
hysteretic_normalize_config == Defaulted
hysteretic_apply == Step({"input", "output"}, {"output"}, hysteretic_describe_fields, "never")
sim_add_hysteretic_operator ==
  Add({"input", "output"}, {"output"}, hysteretic_describe_fields, NoKernel)
sim_hysteretic_update ==
  Resetting(CheckedUpdate(hysteretic_describe_fields), hysteretic_initialize_state)
hysteretic ==
  Kind({"input", "output"}, hysteretic_normalize_config, hysteretic_normalize_config,
    hysteretic_apply, sim_add_hysteretic_operator, sim_hysteretic_update,
    Buffered(Memory(hysteretic_prepare_state, hysteretic_restore, "none"), "without snapshot"))

\* math_operator
math_normalize_config == Defaulted
math_apply ==
  Step({"lhs", "rhs", "output"}, {"output"}, {<<"real", {"lhs", "rhs"}>>, <<"size", {"lhs",
    "rhs", "output"}>>}, "never")
sim_add_elementwise_math_operator ==
  Add({"lhs", "rhs", "output"}, {"output"}, {<<"real", {"lhs", "rhs"}>>}, NoKernel)
sim_elementwise_math_update == LateCheck({<<"real", {"lhs", "rhs"}>>}, {})
elementwise_math ==
  Kind({"lhs", "rhs", "output"}, math_normalize_config, math_normalize_config, math_apply,
    sim_add_elementwise_math_operator, sim_elementwise_math_update, Stateless)

\* remainder
remainder_ir_eval == Kernel({"warped", "reference"}, {"output"}, "baked")
remainder_normalize_config == Defaulted
remainder_apply ==
  Step({"warped", "reference", "output"}, {"output"}, {<<"storage", {"warped",
    "reference"}>>, <<"wide", {"warped", "reference"}>>, <<"size", {"warped", "reference",
    "output"}>>}, "never")
sim_add_remainder_operator ==
  Add({"warped", "reference", "output"}, {"output"}, {}, remainder_ir_eval)
sim_remainder_update == Retarget
remainder ==
  Kind({"warped", "reference", "output"}, remainder_normalize_config,
    remainder_normalize_config, remainder_apply, sim_add_remainder_operator,
    sim_remainder_update, Stateless)

\* copy
copy_validate_fields == Same({"input", "output"})
copy_normalize_config == Defaulted
\* A mutant: Source and target are swapped.
copy_apply_swaps == Step({"input", "output"}, {"input"}, copy_validate_fields, "never")
copy_apply == Step({"input", "output"}, {"output"}, copy_validate_fields, "never")
sim_add_copy_operator == Add({"input", "output"}, {"output"}, copy_validate_fields, NoKernel)
\* A mutant: The update does not validate the fields.
copy_update_unchecked == Silent(Retarget)
sim_copy_update == Silent(CheckedUpdate(copy_validate_fields))
copy ==
  Kind({"input", "output"}, copy_normalize_config, copy_normalize_config, copy_apply,
    sim_add_copy_operator, sim_copy_update, Stateless)

\* scale
scale_validate_fields == Same({"input", "output"})
\* A mutant: A factor that is not finite is stored.
scale_normalize_nothing == AsGiven
scale_normalize_config == Zeroed
scale_apply == Step({"input", "output"}, {"output"}, scale_validate_fields, "never")
sim_add_scale_operator == Add({"input", "output"}, {"output"}, scale_validate_fields, NoKernel)
sim_scale_update == Silent(CheckedUpdate(scale_validate_fields))
scale ==
  Kind({"input", "output"}, scale_normalize_config, scale_normalize_config, scale_apply,
    sim_add_scale_operator, sim_scale_update, Stateless)

FieldOperators ==
  [curl |-> curl, divergence |-> divergence, gradient |-> gradient,
   spatial_derivative |-> spatial_derivative, mask |-> mask, metal_mix |-> metal_mix,
   mixer |-> mixer, segmented_sieve_mark |-> segmented_sieve_mark,
   segmented_sieve_mark_batch |-> segmented_sieve_mark_batch, laplacian |-> laplacian,
   minimal_convolution |-> minimal_convolution, phase_feature |-> phase_feature,
   sieve |-> sieve, sound_observation |-> sound_observation, neural_hybrid |-> neural_hybrid,
   neural_infer |-> neural_infer, chaos_map |-> chaos_map, complex_math |-> complex_math,
   hysteretic |-> hysteretic, elementwise_math |-> elementwise_math, remainder |-> remainder,
   copy |-> copy, scale |-> scale]
==============================================================================
