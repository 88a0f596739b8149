\* unregister() while the plugin is being initialized.
SPECIFICATION Spec
CONSTANTS
  Names = {p}
  Tasks = {t1}
  Ops = {"register", "unregister", "initialize", "destroyAll"}
  MaxInst = 2
  MaxOrder = 3
INVARIANT
  UnregisteredIsDown
