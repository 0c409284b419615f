------------------------------- MODULE OperatorsNoise -------------------------------
(***************************************************************************)
(* The random stimuli, and those that keep their samples in a static cache,*)
(* of core/src/operators/stimulus, in the vocabulary of OperatorKinds.     *)
(***************************************************************************)
EXTENDS OperatorKinds


\* fbm
fbm_normalize == Zeroed
sim_stimulus_octave_noise_try_vdsp_rows == "rowwise"
fbm_fill_static_cache == "each plane"
fbm_kernel_value == FieldKernel("live")
fbm_step == AddsToField(Planar, "early", sim_stimulus_octave_noise_try_vdsp_rows)
sim_add_stimulus_fbm_operator == AddOn(fbm_kernel_value)
sim_stimulus_fbm_update == Retarget
fbm ==
  Stimulus(fbm_normalize, fbm_step, sim_add_stimulus_fbm_operator, sim_stimulus_fbm_update,
    Deriving(fbm_fill_static_cache))

\* hybrid_fbm
hybrid_fbm_normalize == Zeroed
hybrid_fbm_fill_static_cache == "each plane"
hybrid_fbm_kernel_value == FieldKernel("live")
hybrid_fbm_step == AddsToField(Planar, "early", sim_stimulus_octave_noise_try_vdsp_rows)
sim_add_stimulus_hybrid_fbm_operator == AddOn(hybrid_fbm_kernel_value)
sim_stimulus_hybrid_fbm_update == Retarget
hybrid_fbm ==
  Stimulus(hybrid_fbm_normalize, hybrid_fbm_step, sim_add_stimulus_hybrid_fbm_operator,
    sim_stimulus_hybrid_fbm_update, Deriving(hybrid_fbm_fill_static_cache))

\* multifractal
multifractal_normalize == Zeroed
multifractal_fill_static_cache == "each plane"
multifractal_kernel_value == FieldKernel("live")
multifractal_step == AddsToField(Planar, "early", sim_stimulus_octave_noise_try_vdsp_rows)
sim_add_stimulus_multifractal_operator == AddOn(multifractal_kernel_value)
sim_stimulus_multifractal_update == Retarget
multifractal ==
  Stimulus(multifractal_normalize, multifractal_step, sim_add_stimulus_multifractal_operator,
    sim_stimulus_multifractal_update, Deriving(multifractal_fill_static_cache))

\* random_fourier
random_fourier_normalize == Zeroed
random_fourier_try_vdsp_linear_rows == "rowwise"
random_fourier_drive_time == {"clock"}
random_fourier_kernel_time == {"samples"}
random_fourier_save == {"clock", "samples"}
random_fourier_restore == random_fourier_save
random_fourier_ensure_features == "eager"
random_fourier_kernel_value == FieldKernel("live")
random_fourier_step == AddsToField({}, "late", random_fourier_try_vdsp_linear_rows)
sim_add_stimulus_random_fourier_operator == AddOn(random_fourier_kernel_value)
sim_stimulus_random_fourier_update == Resetting(Retarget, random_fourier_kernel_time)
random_fourier ==
  Stimulus(random_fourier_normalize, random_fourier_step,
    sim_add_stimulus_random_fourier_operator, sim_stimulus_random_fourier_update,
    SampledOnce(Memory(random_fourier_drive_time \cup random_fourier_kernel_time,
                       random_fourier_restore, random_fourier_ensure_features)))

\* rd_seed
rd_seed_normalize == Zeroed
rd_seed_try_vdsp_rows == "rowwise"
rd_seed_build_tables == "eager"
rd_seed_step == AddsToField({}, "late", rd_seed_try_vdsp_rows)
sim_add_stimulus_rd_seed_operator == AddOn(NoKernel)
sim_stimulus_rd_seed_update == Allocating(Retarget, "before")
rd_seed ==
  Stimulus(rd_seed_normalize, rd_seed_step, sim_add_stimulus_rd_seed_operator,
    sim_stimulus_rd_seed_update, Deriving(rd_seed_build_tables))

\* ridged_noise
ridged_noise_normalize == Zeroed
ridged_noise_fill_static_cache == "each plane"
ridged_noise_kernel_value == FieldKernel("live")
ridged_noise_step == AddsToField(Planar, "early", sim_stimulus_octave_noise_try_vdsp_rows)
sim_add_stimulus_ridged_noise_operator == AddOn(ridged_noise_kernel_value)
sim_stimulus_ridged_noise_update == Retarget
ridged_noise ==
  Stimulus(ridged_noise_normalize, ridged_noise_step, sim_add_stimulus_ridged_noise_operator,
    sim_stimulus_ridged_noise_update, Deriving(ridged_noise_fill_static_cache))

\* spectral_shells
spectral_shells_normalize == Zeroed
spectral_shells_try_vdsp_linear_rows == "rowwise"
spectral_shells_drive_time == {"clock"}
spectral_shells_save == {"clock"}
spectral_shells_restore == spectral_shells_save
spectral_shells_ensure_modes == "lazy"
spectral_shells_step == AddsToField(Planar, "late", spectral_shells_try_vdsp_linear_rows)
sim_add_stimulus_spectral_shells_operator == AddOn(NoKernel)
sim_stimulus_spectral_shells_update == Retarget
spectral_shells ==
  Stimulus(spectral_shells_normalize, spectral_shells_step,
    sim_add_stimulus_spectral_shells_operator, sim_stimulus_spectral_shells_update,
    Memory(spectral_shells_drive_time, spectral_shells_restore, spectral_shells_ensure_modes))

\* steerable_wavelet
steerable_wavelet_normalize == Zeroed
steerable_wavelet_try_vdsp_rows == "rowwise"
steerable_wavelet_fill_static_cache == "planes"
steerable_wavelet_kernel_value == FieldKernel("live")
steerable_wavelet_step == AddsToField(Planar, "never", steerable_wavelet_try_vdsp_rows)
sim_add_stimulus_steerable_wavelet_operator == AddOn(steerable_wavelet_kernel_value)
sim_stimulus_steerable_wavelet_update == Allocating(Retarget, "before")
steerable_wavelet ==
  Stimulus(steerable_wavelet_normalize, steerable_wavelet_step,
    sim_add_stimulus_steerable_wavelet_operator, sim_stimulus_steerable_wavelet_update,
    Deriving(steerable_wavelet_fill_static_cache))

\* turbulence
turbulence_normalize == Zeroed
turbulence_fill_static_cache == "each plane"
turbulence_kernel_value == FieldKernel("live")
turbulence_step == AddsToField(Planar, "early", sim_stimulus_octave_noise_try_vdsp_rows)
sim_add_stimulus_turbulence_operator == AddOn(turbulence_kernel_value)
sim_stimulus_turbulence_update == Retarget
turbulence ==
  Stimulus(turbulence_normalize, turbulence_step, sim_add_stimulus_turbulence_operator,
    sim_stimulus_turbulence_update, Deriving(turbulence_fill_static_cache))

\* white_noise
white_noise_normalize == Zeroed
white_noise_ir_eval == FieldKernel("live")
white_noise_step == AddsToField({}, "early", "none")
sim_add_stimulus_white_noise_operator == AddOn(white_noise_ir_eval)
sim_stimulus_white_noise_update == Resetting(Retarget, {"random"})
white_noise ==
  Stimulus(white_noise_normalize, white_noise_step, sim_add_stimulus_white_noise_operator,
    sim_stimulus_white_noise_update, Memory({"random"}, {}, "none"))

\* worley_noise
worley_noise_normalize == Zeroed
worley_noise_try_linear_rows == "upfront"
worley_noise_fill_static_cache == "each plane"
worley_noise_kernel_value == FieldKernel("live")
worley_noise_step == AddsToField(Planar, "early", worley_noise_try_linear_rows)
sim_add_stimulus_worley_noise_operator == AddOn(worley_noise_kernel_value)
sim_stimulus_worley_noise_update == Retarget
worley_noise ==
  Stimulus(worley_noise_normalize, worley_noise_step, sim_add_stimulus_worley_noise_operator,
    sim_stimulus_worley_noise_update, Deriving(worley_noise_fill_static_cache))

NoiseStimuli ==
  [fbm |-> fbm, hybrid_fbm |-> hybrid_fbm, multifractal |-> multifractal,
   random_fourier |-> random_fourier, rd_seed |-> rd_seed, ridged_noise |-> ridged_noise,
   spectral_shells |-> spectral_shells, steerable_wavelet |-> steerable_wavelet,
   turbulence |-> turbulence, white_noise |-> white_noise, worley_noise |-> worley_noise]
==============================================================================
