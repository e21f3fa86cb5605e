SPECIFICATION Spec
CONSTANTS
  Name = {"sda", "sda1", "nvme0n1"}
  Configured = {"sda", "nvme0n1"}
  Excluded <- EndsInDigit
  Modulus = 16
  MaxWork = 1
PROPERTY
  ConfiguredIsRead
