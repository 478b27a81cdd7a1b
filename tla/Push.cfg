SPECIFICATION Spec
CONSTANTS
    User <- Users
    Owner = "own"
    Gateway <- Gateways
    Device <- Devices
    UserOf <- DeviceUser
    PlatformOf <- DevicePlatform
    HostOf <- Hosts0
    Scenario <- Scenarios
    MaxMsgs = 6
INVARIANTS   LeaverBounded
