------------------------------- MODULE OperatorsSites -------------------------------
(***************************************************************************)
(* The operators on one field that are not stimuli: the spectral and memory*)
(* operators of diffusion, noise, thermostat and utility, and the warp and *)
(* radio observers, of core/src/operators, in the vocabulary of            *)
(* OperatorKinds.                                                          *)
(***************************************************************************)
EXTENDS OperatorKinds


\* analytic_warp
analytic_warp_ir_eval == FieldKernel("live")
analytic_warp_kernel_samples == {"samples"}
analytic_warp_normalize_config == Defaulted
analytic_warp_apply == AddsToField({}, "never", "none")
sim_add_analytic_warp_operator == AddOn(analytic_warp_ir_eval)
sim_analytic_warp_update == Resetting(Retarget, {"samples"})
analytic_warp ==
  Kind({"field"}, analytic_warp_normalize_config, analytic_warp_normalize_config,
    analytic_warp_apply, sim_add_analytic_warp_operator, sim_analytic_warp_update,
    Memory(analytic_warp_kernel_samples, {}, "none"))

\* dispersion
dispersion_ensure_capacity == "lazy"
dispersion_ir_eval == FieldKernel("live")
dispersion_kernel_samples == {"samples"}
dispersion_apply == AddsToField(Planar, "late", "none")
sim_add_dispersion_operator == AddOn(dispersion_ir_eval)
sim_dispersion_update ==
  Resetting(LateCheck({}, {"cache", "symbol"}), dispersion_kernel_samples)
dispersion ==
  Kind({"field"}, Zeroed, KeptOld, dispersion_apply, sim_add_dispersion_operator,
    sim_dispersion_update, Memory(dispersion_kernel_samples, {}, dispersion_ensure_capacity))

\* fractional_memory
fractional_memory_prepare == "lazy"
fractional_memory_apply_history_response == {"history"}
fractional_memory_save == {"history"}
fractional_memory_restore == fractional_memory_save
fractional_memory_ir_eval == FieldKernel("live")
fractional_memory_kernel_samples == {"samples"}
fractional_memory_apply == AddsToField({}, "never", "none")
sim_add_fractional_memory_operator == AddOn(fractional_memory_ir_eval)
sim_fractional_memory_update ==
  Reshaping(Resetting(Retarget, fractional_memory_kernel_samples))
fractional_memory ==
  Kind({"field"}, AsGiven, AsGiven, fractional_memory_apply,
    sim_add_fractional_memory_operator, sim_fractional_memory_update,
    Buffered(
      Memory(fractional_memory_apply_history_response \cup fractional_memory_kernel_samples,
             fractional_memory_restore, fractional_memory_prepare),
      "with snapshot"))

\* linear_dissipative
linear_dissipative_update_lambda == "lazy"
linear_dissipative_ir_eval == FieldKernel("live")
linear_dissipative_kernel_samples == {"samples"}
linear_dissipative_apply == AddsToField(Planar, "early", "none")
sim_add_linear_dissipative_operator == AddOn(linear_dissipative_ir_eval)
sim_linear_dissipative_update ==
  Resetting(KeepsSymbol(Retarget), linear_dissipative_kernel_samples)
linear_dissipative ==
  Kind({"field"}, AsGiven, AsGiven, linear_dissipative_apply,
    sim_add_linear_dissipative_operator, sim_linear_dissipative_update,
    Memory(linear_dissipative_kernel_samples, {}, linear_dissipative_update_lambda))

\* linear_spectral_fusion
linear_spectral_ensure_capacity == "lazy"
linear_spectral_refresh_kernel_constants == FieldKernel("patched")
linear_spectral_normalize_config == Zeroed
linear_spectral_apply == AddsToField(Planar, "late", "none")
sim_add_linear_spectral_fusion_operator == AddOn(linear_spectral_refresh_kernel_constants)
sim_linear_spectral_fusion_update == Update("pinned", "never", {})
linear_spectral_fusion ==
  Kind({"field"}, linear_spectral_normalize_config, KeptOld, linear_spectral_apply,
    sim_add_linear_spectral_fusion_operator, sim_linear_spectral_fusion_update,
    Deriving(linear_spectral_ensure_capacity))

\* sdr_observer
sdr_observer_normalize_config == Defaulted
sdr_observer_step == AddsToField({<<"complex", {"field"}>>}, "never", "none")
sim_add_sdr_observer_operator == Add({"field"}, {"field"}, {<<"complex", {"field"}>>}, NoKernel)
sim_sdr_observer_update == Resetting(Update("same", "never", {}), {"phase"})
sdr_observer ==
  Kind({"field"}, sdr_observer_normalize_config, sdr_observer_normalize_config,
    sdr_observer_step, sim_add_sdr_observer_operator, sim_sdr_observer_update,
    Memory({"phase"}, {}, "none"))

\* ornstein_uhlenbeck
ornstein_uhlenbeck_apply == AddsToField({}, "never", "none")
sim_add_ornstein_uhlenbeck_operator == AddOn(NoKernel)
sim_ornstein_uhlenbeck_update == Silent(Resetting(CheckedUpdate({}), {"random"}))
ornstein_uhlenbeck ==
  Kind({"field"}, Zeroed, Zeroed, ornstein_uhlenbeck_apply,
    sim_add_ornstein_uhlenbeck_operator, sim_ornstein_uhlenbeck_update, Memory({"random"},
    {}, "none"))

\* stochastic_noise
stochastic_noise_apply == AddsToField({}, "early", "none")
sim_add_stochastic_noise_operator == AddOn(FieldKernel("baked"))
sim_stochastic_noise_update == Silent(Resetting(Retarget, {"random"}))
stochastic_noise ==
  Kind({"field"}, AsGiven, AsGiven, stochastic_noise_apply,
    sim_add_stochastic_noise_operator, sim_stochastic_noise_update, Memory({"random"}, {},
    "none"))

\* thermostat
thermostat_save == {"history"}
thermostat_restore == thermostat_save
thermostat_ir_eval == Kernel({"field", "memory"}, {"field"}, "live")
thermostat_kernel_samples == {"samples"}
thermostat_normalize_config == AsGiven
thermostat_apply == [AddsToField({}, "never", "none") EXCEPT !.reads = {"field", "memory"}]
sim_add_thermostat_operator == AddOn(thermostat_ir_eval)
sim_thermostat_update ==
  Resetting(Retarget, thermostat_restore \cup thermostat_kernel_samples)
thermostat ==
  Kind({"field", "memory"}, thermostat_normalize_config, thermostat_normalize_config,
    thermostat_apply, sim_add_thermostat_operator, sim_thermostat_update,
    Memory({"history"} \cup thermostat_kernel_samples, thermostat_restore, "none"))

\* coordinate
coordinate_refresh_runtime == "eager"
coordinate_normalize_config == Defaulted
coordinate_apply == AddsToField({}, "never", "none")
sim_add_coordinate_operator == AddOn(NoKernel)
sim_coordinate_update == LateCheck({}, {})
coordinate ==
  Kind({"field"}, coordinate_normalize_config, coordinate_normalize_config, coordinate_apply,
    sim_add_coordinate_operator, sim_coordinate_update, Deriving(coordinate_refresh_runtime))

\* phase_rotate
phase_rotate_apply == AddsToField({}, "early", "none")
sim_add_phase_rotate_operator == AddOn(FieldKernel("patched"))
sim_phase_rotate_update == LateCheck({}, {"symbol"})
phase_rotate ==
  Kind({"field"}, Zeroed, KeptOld, phase_rotate_apply, sim_add_phase_rotate_operator,
    sim_phase_rotate_update, Stateless)

\* zero_field
zero_field_apply == AddsToField({}, "never", "none")
sim_add_zero_field_operator == AddOn(NoKernel)
sim_zero_field_update == Update("same", "never", {})
zero_field ==
  Kind({"field"}, Defaulted, Defaulted, zero_field_apply, sim_add_zero_field_operator,
    sim_zero_field_update, Stateless)

SiteOperators ==
  [analytic_warp |-> analytic_warp, dispersion |-> dispersion,
   fractional_memory |-> fractional_memory, linear_dissipative |-> linear_dissipative,
   linear_spectral_fusion |-> linear_spectral_fusion, sdr_observer |-> sdr_observer,
   ornstein_uhlenbeck |-> ornstein_uhlenbeck, stochastic_noise |-> stochastic_noise,
   thermostat |-> thermostat, coordinate |-> coordinate, phase_rotate |-> phase_rotate,
   zero_field |-> zero_field]
==============================================================================
