----------------------------- MODULE OperatorsStimulus -----------------------------
(***************************************************************************)
(* The stimuli of core/src/operators/stimulus, in the vocabulary of        *)
(* OperatorKinds.  Every definition has the name of the function it        *)
(* describes, and every kind that of its file.                             *)
(***************************************************************************)
EXTENDS OperatorKinds


\* airy_beam
airy_beam_normalize == Zeroed
airy_beam_try_vdsp_linear_rows == "rowwise"
airy_beam_refresh_derived == "eager"
airy_beam_step == AddsToField(Planar, "late", airy_beam_try_vdsp_linear_rows)
sim_add_stimulus_airy_beam_operator == AddOn(NoKernel)
sim_stimulus_airy_beam_update == Retarget
airy_beam ==
  Stimulus(airy_beam_normalize, airy_beam_step, sim_add_stimulus_airy_beam_operator,
    sim_stimulus_airy_beam_update, Deriving(airy_beam_refresh_derived))

\* bessel_beam
bessel_beam_normalize == Zeroed
bessel_beam_try_vdsp_linear_rows == "rowwise"
bessel_beam_step == AddsToField(Planar, "late", bessel_beam_try_vdsp_linear_rows)
sim_add_stimulus_bessel_beam_operator == AddOn(NoKernel)
sim_stimulus_bessel_beam_update == Silent(Retarget)
bessel_beam ==
  Stimulus(bessel_beam_normalize, bessel_beam_step, sim_add_stimulus_bessel_beam_operator,
    sim_stimulus_bessel_beam_update, Stateless)

\* checkerboard
checkerboard_normalize == Zeroed
checkerboard_try_vdsp_rows == "rowwise"
checkerboard_refresh_runtime == "eager"
checkerboard_build_ir == FieldKernel("baked")
checkerboard_step == AddsToField({}, "early", checkerboard_try_vdsp_rows)
sim_add_stimulus_checkerboard_operator == AddOn(checkerboard_build_ir)
sim_stimulus_checkerboard_update == Retarget
checkerboard ==
  Stimulus(checkerboard_normalize, checkerboard_step, sim_add_stimulus_checkerboard_operator,
    sim_stimulus_checkerboard_update, Deriving(checkerboard_refresh_runtime))

\* chladni
chladni_normalize == Zeroed
chladni_try_vdsp_linear_rows == "rowwise"
chladni_step == AddsToField(Planar, "late", chladni_try_vdsp_linear_rows)
sim_add_stimulus_chladni_operator == AddOn(NoKernel)
sim_stimulus_chladni_update == Retarget
chladni ==
  Stimulus(chladni_normalize, chladni_step, sim_add_stimulus_chladni_operator,
    sim_stimulus_chladni_update, Stateless)

\* cylindrical_wave_emitter
cylindrical_wave_emitter_normalize == Zeroed
cylindrical_wave_emitter_try_vdsp_linear_rows == "rowwise"
cylindrical_wave_emitter_step ==
  AddsToField(Planar, "late", cylindrical_wave_emitter_try_vdsp_linear_rows)
sim_add_stimulus_cylindrical_wave_emitter_operator == AddOn(NoKernel)
sim_stimulus_cylindrical_wave_emitter_update == Silent(Retarget)
cylindrical_wave_emitter ==
  Stimulus(cylindrical_wave_emitter_normalize, cylindrical_wave_emitter_step,
    sim_add_stimulus_cylindrical_wave_emitter_operator,
    sim_stimulus_cylindrical_wave_emitter_update, Stateless)

\* digamma_square
digamma_square_normalize == Zeroed
digamma_square_try_vdsp_rows == "rowwise"
digamma_square_drive_time == {"clock"}
digamma_square_build_ir == Kernel({"field", "warp"}, {"field"}, "baked")
digamma_square_step ==
  [AddsToField({<<"size", {"field", "warp"}>>}, "late",
    digamma_square_try_vdsp_rows) EXCEPT !.reads = {"field", "warp"}]
digamma_square_register == AddOn(digamma_square_build_ir)
sim_stimulus_digamma_square_update == CheckedUpdate({})
digamma_square ==
  Kind({"field", "warp"}, digamma_square_normalize, digamma_square_normalize,
    digamma_square_step, digamma_square_register, sim_stimulus_digamma_square_update,
    Memory(digamma_square_drive_time, {}, "none"))

\* fourier
fourier_normalize == Zeroed
fourier_ir_eval == FieldKernel("live")
fourier_kernel_sample == {"samples"}
fourier_step == AddsToField({}, "never", "none")
sim_add_stimulus_fourier_operator == AddOn(fourier_ir_eval)
sim_stimulus_fourier_update ==
  Silent(Resetting(Retarget, {"phase"} \cup fourier_kernel_sample))
fourier ==
  Stimulus(fourier_normalize, fourier_step, sim_add_stimulus_fourier_operator,
    sim_stimulus_fourier_update,
    SampledOnce(Memory({"phase"} \cup fourier_kernel_sample, {}, "none")))

\* gabor
gabor_normalize == Zeroed
gabor_try_vdsp_linear_rows == "rowwise"
gabor_drive_time == {"clock"}
gabor_build_ir == FieldKernel("baked")
gabor_step == AddsToField({}, "late", gabor_try_vdsp_linear_rows)
sim_add_stimulus_gabor_operator == AddOn(gabor_build_ir)
sim_stimulus_gabor_update == Retarget
gabor ==
  Stimulus(gabor_normalize, gabor_step, sim_add_stimulus_gabor_operator,
    sim_stimulus_gabor_update, Memory(gabor_drive_time, {}, "none"))

\* gaussian
gaussian_normalize == Zeroed
gaussian_try_vdsp_linear_rows == "rowwise"
gaussian_drive_time == {"clock"}
gaussian_save == {"clock"}
\* A mutant: The restore hook forgets the clock.
gaussian_restore_nothing == {}
gaussian_restore == gaussian_save
gaussian_build_ir == FieldKernel("baked")
gaussian_step == AddsToField({}, "late", gaussian_try_vdsp_linear_rows)
sim_add_stimulus_gaussian_operator == AddOn(gaussian_build_ir)
\* A mutant: The update does not refresh the symbol.
gaussian_update_keeps_symbol == KeepsSymbol(Retarget)
sim_stimulus_gaussian_update == Retarget
gaussian ==
  Stimulus(gaussian_normalize, gaussian_step, sim_add_stimulus_gaussian_operator,
    sim_stimulus_gaussian_update, Memory(gaussian_drive_time, gaussian_restore, "none"))

\* heat_kernel
heat_kernel_normalize == Zeroed
heat_kernel_try_vdsp_linear_rows == "rowwise"
heat_kernel_drive_time == {"clock"}
heat_kernel_build_ir == FieldKernel("baked")
heat_kernel_step == AddsToField({}, "late", heat_kernel_try_vdsp_linear_rows)
sim_add_stimulus_heat_kernel_operator == AddOn(heat_kernel_build_ir)
sim_stimulus_heat_kernel_update == Retarget
heat_kernel ==
  Stimulus(heat_kernel_normalize, heat_kernel_step, sim_add_stimulus_heat_kernel_operator,
    sim_stimulus_heat_kernel_update, Memory(heat_kernel_drive_time, {}, "none"))

\* hermite_gaussian_beam
hermite_gaussian_beam_normalize == Zeroed
hermite_gaussian_beam_try_vdsp_linear_rows == "rowwise"
hermite_gaussian_beam_step ==
  AddsToField(Planar, "late", hermite_gaussian_beam_try_vdsp_linear_rows)
sim_add_stimulus_hermite_gaussian_beam_operator == AddOn(NoKernel)
sim_stimulus_hermite_gaussian_beam_update == Retarget
hermite_gaussian_beam ==
  Stimulus(hermite_gaussian_beam_normalize, hermite_gaussian_beam_step,
    sim_add_stimulus_hermite_gaussian_beam_operator,
    sim_stimulus_hermite_gaussian_beam_update, Stateless)

\* laplace_beltrami
laplace_beltrami_normalize == Zeroed
laplace_beltrami_try_vdsp_rows == "rowwise"
laplace_beltrami_step == AddsToField(Planar, "late", laplace_beltrami_try_vdsp_rows)
sim_add_stimulus_laplace_beltrami_operator == AddOn(NoKernel)
sim_stimulus_laplace_beltrami_update == Retarget
laplace_beltrami ==
  Stimulus(laplace_beltrami_normalize, laplace_beltrami_step,
    sim_add_stimulus_laplace_beltrami_operator, sim_stimulus_laplace_beltrami_update,
    Stateless)

\* lissajous
lissajous_normalize == Zeroed
lissajous_try_vdsp_linear_rows == "rowwise"
lissajous_step == AddsToField({}, "late", lissajous_try_vdsp_linear_rows)
sim_add_stimulus_lissajous_operator == AddOn(NoKernel)
sim_stimulus_lissajous_update == Retarget
lissajous ==
  Stimulus(lissajous_normalize, lissajous_step, sim_add_stimulus_lissajous_operator,
    sim_stimulus_lissajous_update, Stateless)

\* log_polar
log_polar_normalize == Zeroed
log_polar_try_vdsp_rows == "rowwise"
log_polar_step == AddsToField(Planar, "late", log_polar_try_vdsp_rows)
sim_add_stimulus_log_polar_operator == AddOn(NoKernel)
sim_stimulus_log_polar_update == Retarget
log_polar ==
  Stimulus(log_polar_normalize, log_polar_step, sim_add_stimulus_log_polar_operator,
    sim_stimulus_log_polar_update, Stateless)

\* log_spectral_grid
log_spectral_grid_normalize == Zeroed
log_spectral_grid_try_vdsp_linear_rows == "rowwise"
log_spectral_grid_rebuild_modes == "eager"
log_spectral_grid_step == AddsToField(Planar, "late", log_spectral_grid_try_vdsp_linear_rows)
sim_add_stimulus_log_spectral_grid_operator == AddOn(NoKernel)
sim_stimulus_log_spectral_grid_update == Allocating(Retarget, "after")
log_spectral_grid ==
  Stimulus(log_spectral_grid_normalize, log_spectral_grid_step,
    sim_add_stimulus_log_spectral_grid_operator, sim_stimulus_log_spectral_grid_update,
    Deriving(log_spectral_grid_rebuild_modes))

\* moire
moire_normalize == Zeroed
moire_try_vdsp_rows == "rowwise"
moire_step == AddsToField({}, "late", moire_try_vdsp_rows)
sim_add_stimulus_moire_operator == AddOn(NoKernel)
sim_stimulus_moire_update == Retarget
moire ==
  Stimulus(moire_normalize, moire_step, sim_add_stimulus_moire_operator,
    sim_stimulus_moire_update, Stateless)

\* morlet_field
morlet_field_normalize == Zeroed
morlet_field_try_vdsp_rows == "rowwise"
morlet_field_step == AddsToField({}, "late", morlet_field_try_vdsp_rows)
sim_add_stimulus_morlet_field_operator == AddOn(NoKernel)
sim_stimulus_morlet_field_update == Retarget
morlet_field ==
  Stimulus(morlet_field_normalize, morlet_field_step, sim_add_stimulus_morlet_field_operator,
    sim_stimulus_morlet_field_update, Stateless)

\* optical_vortex
optical_vortex_normalize == Zeroed
optical_vortex_try_vdsp_linear_rows == "rowwise"
optical_vortex_step == AddsToField({}, "late", optical_vortex_try_vdsp_linear_rows)
sim_add_stimulus_optical_vortex_operator == AddOn(NoKernel)
sim_stimulus_optical_vortex_update == Retarget
optical_vortex ==
  Stimulus(optical_vortex_normalize, optical_vortex_step,
    sim_add_stimulus_optical_vortex_operator, sim_stimulus_optical_vortex_update, Stateless)

\* posenc
posenc_normalize == Zeroed
posenc_try_vdsp_linear_rows == "rowwise"
posenc_step == AddsToField({}, "late", posenc_try_vdsp_linear_rows)
sim_add_stimulus_posenc_operator == AddOn(NoKernel)
sim_stimulus_posenc_update == Retarget
posenc ==
  Stimulus(posenc_normalize, posenc_step, sim_add_stimulus_posenc_operator,
    sim_stimulus_posenc_update, Stateless)

\* sinusoidal
sinusoidal_normalize == Zeroed
sinusoidal_try_vdsp_linear_rows == "rowwise"
sinusoidal_drive_time == {"clock"}
sinusoidal_save == {"clock"}
sinusoidal_restore == sinusoidal_save
sinusoidal_build_ir == FieldKernel("baked")
sinusoidal_step == AddsToField({}, "late", sinusoidal_try_vdsp_linear_rows)
sinusoidal_register == AddOn(sinusoidal_build_ir)
sim_stimulus_sinusoidal_update == Retarget
sinusoidal ==
  Stimulus(sinusoidal_normalize, sinusoidal_step, sinusoidal_register,
    sim_stimulus_sinusoidal_update, Memory(sinusoidal_drive_time, sinusoidal_restore, "none"))

\* spectral_lines
spectral_lines_normalize == Zeroed
spectral_lines_try_linear_rows == "upfront"
spectral_lines_drive_time == {"clock"}
spectral_lines_save == {"clock"}
spectral_lines_restore == spectral_lines_save
spectral_lines_refresh_coeffs == "eager"
spectral_lines_build_ir == FieldKernel("baked")
spectral_lines_step == AddsToField({}, "late", spectral_lines_try_linear_rows)
sim_add_stimulus_spectral_lines_operator == AddOn(spectral_lines_build_ir)
sim_stimulus_spectral_lines_update == Retarget
spectral_lines ==
  Stimulus(spectral_lines_normalize, spectral_lines_step,
    sim_add_stimulus_spectral_lines_operator, sim_stimulus_spectral_lines_update,
    Memory(spectral_lines_drive_time, spectral_lines_restore, spectral_lines_refresh_coeffs))

\* stimulus
stimulus_normalize == Zeroed
stimulus_apply == AddsToField({}, "never", "none")
sim_add_stimulus_operator == AddOn(NoKernel)
sim_stimulus_update == Retarget
stimulus ==
  Stimulus(stimulus_normalize, stimulus_apply, sim_add_stimulus_operator,
    sim_stimulus_update, Stateless)

\* traveling_wave_packet
traveling_wave_packet_normalize == Zeroed
traveling_wave_packet_try_vdsp_linear_rows == "rowwise"
traveling_wave_packet_step ==
  AddsToField(Planar, "late", traveling_wave_packet_try_vdsp_linear_rows)
sim_add_stimulus_traveling_wave_packet_operator == AddOn(NoKernel)
sim_stimulus_traveling_wave_packet_update == Retarget
traveling_wave_packet ==
  Stimulus(traveling_wave_packet_normalize, traveling_wave_packet_step,
    sim_add_stimulus_traveling_wave_packet_operator,
    sim_stimulus_traveling_wave_packet_update, Stateless)

\* wave_modes
wave_modes_normalize == Zeroed
wave_modes_try_vdsp_linear_rows == "rowwise"
wave_modes_step == AddsToField(Planar, "late", wave_modes_try_vdsp_linear_rows)
sim_add_stimulus_wave_modes_operator == AddOn(NoKernel)
sim_stimulus_wave_modes_update == Retarget
wave_modes ==
  Stimulus(wave_modes_normalize, wave_modes_step, sim_add_stimulus_wave_modes_operator,
    sim_stimulus_wave_modes_update, Stateless)

\* zeta_plane_slice
zeta_plane_slice_normalize == Zeroed
zeta_plane_slice_refresh_runtime == "eager"
zeta_plane_slice_step == AddsToField(Planar, "never", "none")
sim_add_stimulus_zeta_plane_slice_operator == AddOn(NoKernel)
sim_stimulus_zeta_plane_slice_update == Retarget
zeta_plane_slice ==
  Stimulus(zeta_plane_slice_normalize, zeta_plane_slice_step,
    sim_add_stimulus_zeta_plane_slice_operator, sim_stimulus_zeta_plane_slice_update,
    Deriving(zeta_plane_slice_refresh_runtime))

\* zone_plate
zone_plate_normalize == Zeroed
zone_plate_try_vdsp_linear_rows == "rowwise"
zone_plate_step == AddsToField(Planar, "late", zone_plate_try_vdsp_linear_rows)
sim_add_stimulus_zone_plate_operator == AddOn(NoKernel)
sim_stimulus_zone_plate_update == Retarget
zone_plate ==
  Stimulus(zone_plate_normalize, zone_plate_step, sim_add_stimulus_zone_plate_operator,
    sim_stimulus_zone_plate_update, Stateless)

Stimuli ==
  [airy_beam |-> airy_beam, bessel_beam |-> bessel_beam, checkerboard |-> checkerboard,
   chladni |-> chladni, cylindrical_wave_emitter |-> cylindrical_wave_emitter,
   digamma_square |-> digamma_square, fourier |-> fourier, gabor |-> gabor,
   gaussian |-> gaussian, heat_kernel |-> heat_kernel,
   hermite_gaussian_beam |-> hermite_gaussian_beam, laplace_beltrami |-> laplace_beltrami,
   lissajous |-> lissajous, log_polar |-> log_polar, log_spectral_grid |-> log_spectral_grid,
   moire |-> moire, morlet_field |-> morlet_field, optical_vortex |-> optical_vortex,
   posenc |-> posenc, sinusoidal |-> sinusoidal, spectral_lines |-> spectral_lines,
   stimulus |-> stimulus, traveling_wave_packet |-> traveling_wave_packet,
   wave_modes |-> wave_modes, zeta_plane_slice |-> zeta_plane_slice,
   zone_plate |-> zone_plate]
==============================================================================
