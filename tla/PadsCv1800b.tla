---------------------------- MODULE PadsCv1800b ----------------------------
(***************************************************************************)
(* include/pinmux_cv1800b.h, the pads of the Duo: their function-select      *)
(* registers and the function that each value of a register selects.        *)
(* (PTEST has a function but no register, and the UART*_IP_SEL registers    *)
(* are used nowhere; both are left out.)                                     *)
(***************************************************************************)
EXTENDS Sequences, TLC

\* FMUX_GPIO_FUNCSEL_*: the pads in the order of their registers, which are 4 bytes apart from
\* 0x0 on, each with its select in the lowest three bits (OFFSET 0, MASK 0x7).
DuoStoragePads == <<
    "SD0_CLK", "SD0_CMD", "SD0_D0", "SD0_D1", "SD0_D2", "SD0_D3", "SD0_CD", "SD0_PWR_EN", "SPK_EN",
    "UART0_TX", "UART0_RX", "SPINOR_HOLD_X", "SPINOR_SCK", "SPINOR_MOSI", "SPINOR_WP_X",
    "SPINOR_MISO", "SPINOR_CS_X", "JTAG_CPU_TMS", "JTAG_CPU_TCK", "IIC0_SCL", "IIC0_SDA", "AUX0",
    "GPIO_ZQ", "PWR_VBAT_DET", "PWR_RSTN", "PWR_SEQ1", "PWR_SEQ2", "PWR_WAKEUP0", "PWR_BUTTON1",
    "XTAL_XIN", "PWR_GPIO0", "PWR_GPIO1", "PWR_GPIO2", "SD1_GPIO1", "SD1_GPIO0", "SD1_D3">>

DuoMediaPads == <<
    "SD1_D2", "SD1_D1", "SD1_D0", "SD1_CMD", "SD1_CLK", "PWM0_BUCK", "ADC1", "USB_VBUS_DET",
    "MUX_SPI1_MISO", "MUX_SPI1_MOSI", "MUX_SPI1_CS", "MUX_SPI1_SCK", "PAD_ETH_TXP", "PAD_ETH_TXM",
    "PAD_ETH_RXP", "PAD_ETH_RXM", "GPIO_RTX", "PAD_MIPIRX4N", "PAD_MIPIRX4P", "PAD_MIPIRX3N",
    "PAD_MIPIRX3P", "PAD_MIPIRX2N", "PAD_MIPIRX2P", "PAD_MIPIRX1N", "PAD_MIPIRX1P", "PAD_MIPIRX0N",
    "PAD_MIPIRX0P", "PAD_MIPI_TXM2", "PAD_MIPI_TXP2", "PAD_MIPI_TXM1", "PAD_MIPI_TXP1",
    "PAD_MIPI_TXM0", "PAD_MIPI_TXP0", "PKG_TYPE0", "PKG_TYPE1", "PKG_TYPE2", "PAD_AUD_AINL_MIC",
    "PAD_AUD_AINR_MIC", "PAD_AUD_AOUTL", "PAD_AUD_AOUTR">>

DuoPads == DuoStoragePads \o DuoMediaPads

\* <pad>__<function>: the function that each value, from 0 on, selects; "" where the header has none.
DuoStorageFunctions == [
    SD0_CLK |-> <<"SDIO0_CLK", "IIC1_SDA", "SPI0_SCK", "XGPIOA_7", "", "PWM_15", "EPHY_LNK_LED", "DBG_0">>,
    SD0_CMD |-> <<"SDIO0_CMD", "IIC1_SCL", "SPI0_SDO", "XGPIOA_8", "", "PWM_14", "EPHY_SPD_LED", "DBG_1">>,
    SD0_D0 |-> <<"SDIO0_D_0", "CAM_MCLK1", "SPI0_SDI", "XGPIOA_9", "UART3_TX", "PWM_13", "WG0_D0", "DBG_2">>,
    SD0_D1 |-> <<"SDIO0_D_1", "IIC1_SDA", "AUX0", "XGPIOA_10", "UART1_TX", "PWM_12", "WG0_D1", "DBG_3">>,
    SD0_D2 |-> <<"SDIO0_D_2", "IIC1_SCL", "AUX1", "XGPIOA_11", "UART1_RX", "PWM_11", "WG1_D0", "DBG_4">>,
    SD0_D3 |-> <<"SDIO0_D_3", "CAM_MCLK0", "SPI0_CS_X", "XGPIOA_12", "UART3_RX", "PWM_10", "WG1_D1", "DBG_5">>,
    SD0_CD |-> <<"SDIO0_CD", "", "", "XGPIOA_13">>,
    SD0_PWR_EN |-> <<"SDIO0_PWR_EN", "", "", "XGPIOA_14">>,
    SPK_EN |-> <<"", "", "", "XGPIOA_15">>,
    UART0_TX |-> <<"UART0_TX", "CAM_MCLK1", "PWM_4", "XGPIOA_16", "UART1_TX", "AUX1", "JTAG_TMS", "DBG_6">>,
    UART0_RX |-> <<"UART0_RX", "CAM_MCLK0", "PWM_5", "XGPIOA_17", "UART1_RX", "AUX0", "JTAG_TCK", "DBG_7">>,
    SPINOR_HOLD_X |-> <<"", "SPINOR_HOLD_X", "SPINAND_HOLD", "XGPIOA_26">>,
    SPINOR_SCK |-> <<"", "SPINOR_SCK", "SPINAND_CLK", "XGPIOA_22">>,
    SPINOR_MOSI |-> <<"", "SPINOR_MOSI", "SPINAND_MOSI", "XGPIOA_25">>,
    SPINOR_WP_X |-> <<"", "SPINOR_WP_X", "SPINAND_WP", "XGPIOA_27">>,
    SPINOR_MISO |-> <<"", "SPINOR_MISO", "SPINAND_MISO", "XGPIOA_23">>,
    SPINOR_CS_X |-> <<"", "SPINOR_CS_X", "SPINAND_CS", "XGPIOA_24">>,
    JTAG_CPU_TMS |-> <<"JTAG_TMS", "CAM_MCLK0", "PWM_7", "XGPIOA_19", "UART1_RTS", "AUX0", "UART1_TX">>,
    JTAG_CPU_TCK |-> <<"JTAG_TCK", "CAM_MCLK1", "PWM_6", "XGPIOA_18", "UART1_CTS", "AUX1", "UART1_RX">>,
    IIC0_SCL |-> <<"JTAG_TDI", "UART1_TX", "UART2_TX", "XGPIOA_28", "IIC0_SCL", "WG0_D0", "", "DBG_10">>,
    IIC0_SDA |-> <<"JTAG_TDO", "UART1_RX", "UART2_RX", "XGPIOA_29", "IIC0_SDA", "WG0_D1", "WG1_D0", "DBG_11">>,
    AUX0 |-> <<"AUX0", "", "", "XGPIOA_30", "IIS1_MCLK", "", "WG1_D1", "DBG_12">>,
    GPIO_ZQ |-> <<"", "", "", "PWR_GPIO_24", "PWM_2">>,
    PWR_VBAT_DET |-> <<"PWR_VBAT_DET">>,
    PWR_RSTN |-> <<"PWR_RSTN">>,
    PWR_SEQ1 |-> <<"PWR_SEQ1", "", "", "PWR_GPIO_3">>,
    PWR_SEQ2 |-> <<"PWR_SEQ2", "", "", "PWR_GPIO_4">>,
    PWR_WAKEUP0 |-> <<"PWR_WAKEUP0", "PWR_IR0", "PWR_UART0_TX", "PWR_GPIO_6", "UART1_TX", "IIC4_SCL", "EPHY_LNK_LED", "WG2_D0">>,
    PWR_BUTTON1 |-> <<"PWR_BUTTON1", "", "", "PWR_GPIO_8", "UART1_RX", "IIC4_SDA", "EPHY_SPD_LED", "WG2_D1">>]

DuoPowerFunctions == [
    XTAL_XIN |-> <<"PWR_XTAL_CLKIN">>,
    PWR_GPIO0 |-> <<"PWR_GPIO_0", "UART2_TX", "PWR_UART0_RX", "", "PWM_8">>,
    PWR_GPIO1 |-> <<"PWR_GPIO_1", "UART2_RX", "", "EPHY_LNK_LED", "PWM_9", "PWR_IIC_SCL", "IIC2_SCL", "IIC0_SDA">>,
    PWR_GPIO2 |-> <<"PWR_GPIO_2", "", "PWR_SECTICK", "EPHY_SPD_LED", "PWM_10", "PWR_IIC_SDA", "IIC2_SDA", "IIC0_SCL">>,
    SD1_GPIO1 |-> <<"", "UART4_TX", "", "PWR_GPIO_26", "", "", "", "PWM_10">>,
    SD1_GPIO0 |-> <<"", "UART4_RX", "", "PWR_GPIO_25", "", "", "", "PWM_11">>,
    SD1_D3 |-> <<"PWR_SD1_D3", "SPI2_CS_X", "IIC1_SCL", "PWR_GPIO_18", "CAM_MCLK0", "UART3_CTS", "PWR_SPINOR1_CS_X", "PWM_4">>,
    SD1_D2 |-> <<"PWR_SD1_D2", "IIC1_SCL", "UART2_TX", "PWR_GPIO_19", "CAM_MCLK0", "UART3_TX", "PWR_SPINOR1_HOLD_X", "PWM_5">>,
    SD1_D1 |-> <<"PWR_SD1_D1", "IIC1_SDA", "UART2_RX", "PWR_GPIO_20", "CAM_MCLK1", "UART3_RX", "PWR_SPINOR1_WP_X", "PWM_6">>,
    SD1_D0 |-> <<"PWR_SD1_D0", "SPI2_SDI", "IIC1_SDA", "PWR_GPIO_21", "CAM_MCLK1", "UART3_RTS", "PWR_SPINOR1_MISO", "PWM_7">>,
    SD1_CMD |-> <<"PWR_SD1_CMD", "SPI2_SDO", "IIC3_SCL", "PWR_GPIO_22", "CAM_VS0", "EPHY_LNK_LED", "PWR_SPINOR1_MOSI", "PWM_8">>,
    SD1_CLK |-> <<"PWR_SD1_CLK", "SPI2_SCK", "IIC3_SDA", "PWR_GPIO_23", "CAM_HS0", "EPHY_SPD_LED", "PWR_SPINOR1_SCK", "PWM_9">>,
    PWM0_BUCK |-> <<"PWM_0", "", "", "XGPIOB_0">>,
    ADC1 |-> <<"", "", "", "XGPIOB_3", "KEY_COL2", "", "PWM_3">>,
    USB_VBUS_DET |-> <<"USB_VBUS_DET", "", "", "XGPIOB_6", "CAM_MCLK0", "CAM_MCLK1", "PWM_4">>,
    MUX_SPI1_MISO |-> <<"", "UART3_RTS", "IIC1_SDA", "XGPIOB_8", "PWM_9", "KEY_COL1", "SPI1_SDI", "DBG_14">>,
    MUX_SPI1_MOSI |-> <<"", "UART3_RX", "IIC1_SCL", "XGPIOB_7", "PWM_8", "KEY_COL0", "SPI1_SDO", "DBG_13">>,
    MUX_SPI1_CS |-> <<"", "UART3_CTS", "CAM_MCLK0", "XGPIOB_10", "PWM_11", "KEY_ROW3", "SPI1_CS_X", "DBG_16">>,
    MUX_SPI1_SCK |-> <<"", "UART3_TX", "CAM_MCLK1", "XGPIOB_9", "PWM_10", "KEY_ROW2", "SPI1_SCK", "DBG_15">>,
    PAD_ETH_TXP |-> <<"", "UART3_RX", "IIC1_SCL", "XGPIOB_25", "PWM_13", "CAM_MCLK0", "SPI1_SDO", "IIS2_LRCK">>,
    PAD_ETH_TXM |-> <<"", "UART3_RTS", "IIC1_SDA", "XGPIOB_24", "PWM_12", "CAM_MCLK1", "SPI1_SDI", "IIS2_BCLK">>]

DuoMediaFunctions == [
    PAD_ETH_RXP |-> <<"", "UART3_TX", "CAM_MCLK1", "XGPIOB_27", "PWM_15", "CAM_HS0", "SPI1_SCK", "IIS2_DO">>,
    PAD_ETH_RXM |-> <<"", "UART3_CTS", "CAM_MCLK0", "XGPIOB_26", "PWM_14", "CAM_VS0", "SPI1_CS_X", "IIS2_DI">>,
    GPIO_RTX |-> <<"", "VI0_D_15", "", "XGPIOB_23", "PWM_1", "CAM_MCLK0", "", "IIS2_MCLK">>,
    PAD_MIPIRX4N |-> <<"", "VI0_CLK", "IIC0_SCL", "XGPIOC_2", "IIC1_SDA", "CAM_MCLK0", "KEY_ROW0", "MUX_SPI1_SCK">>,
    PAD_MIPIRX4P |-> <<"", "VI0_D_0", "IIC0_SDA", "XGPIOC_3", "IIC1_SCL", "CAM_MCLK1", "KEY_ROW1", "MUX_SPI1_CS">>,
    PAD_MIPIRX3N |-> <<"", "VI0_D_1", "", "XGPIOC_4", "CAM_MCLK0", "", "", "MUX_SPI1_MISO">>,
    PAD_MIPIRX3P |-> <<"", "VI0_D_2", "", "XGPIOC_5", "", "", "", "MUX_SPI1_MOSI">>,
    PAD_MIPIRX2N |-> <<"", "VI0_D_3", "", "XGPIOC_6", "", "IIC4_SCL", "", "DBG_6">>,
    PAD_MIPIRX2P |-> <<"", "VI0_D_4", "", "XGPIOC_7", "", "IIC4_SDA", "", "DBG_7">>,
    PAD_MIPIRX1N |-> <<"", "VI0_D_5", "", "XGPIOC_8", "", "", "KEY_ROW3", "DBG_8">>,
    PAD_MIPIRX1P |-> <<"", "VI0_D_6", "", "XGPIOC_9", "IIC1_SDA", "", "KEY_ROW2", "DBG_9">>,
    PAD_MIPIRX0N |-> <<"", "VI0_D_7", "", "XGPIOC_10", "IIC1_SCL", "CAM_MCLK1", "", "DBG_10">>,
    PAD_MIPIRX0P |-> <<"", "VI0_D_8", "", "XGPIOC_11", "CAM_MCLK0", "", "", "DBG_11">>,
    PAD_MIPI_TXM2 |-> <<"", "VI0_D_13", "IIC0_SDA", "XGPIOC_16", "IIC1_SDA", "PWM_8", "SPI0_SCK">>,
    PAD_MIPI_TXP2 |-> <<"", "VI0_D_14", "IIC0_SCL", "XGPIOC_17", "IIC1_SCL", "PWM_9", "SPI0_CS_X", "IIS1_MCLK">>,
    PAD_MIPI_TXM1 |-> <<"SPI3_SDO", "VI0_D_11", "IIS1_LRCK", "XGPIOC_14", "IIC2_SDA", "PWM_10", "SPI0_SDO", "DBG_14">>,
    PAD_MIPI_TXP1 |-> <<"SPI3_SDI", "VI0_D_12", "IIS1_DO", "XGPIOC_15", "IIC2_SCL", "PWM_11", "SPI0_SDI", "DBG_15">>,
    PAD_MIPI_TXM0 |-> <<"SPI3_SCK", "VI0_D_9", "IIS1_DI", "XGPIOC_12", "CAM_MCLK1", "PWM_14", "CAM_VS0", "DBG_12">>,
    PAD_MIPI_TXP0 |-> <<"SPI3_CS_X", "VI0_D_10", "IIS1_BCLK", "XGPIOC_13", "CAM_MCLK0", "PWM_15", "CAM_HS0", "DBG_13">>,
    PKG_TYPE0 |-> <<"PKG_TYPE0">>,
    PKG_TYPE1 |-> <<"PKG_TYPE1">>,
    PKG_TYPE2 |-> <<"PKG_TYPE2">>,
    PAD_AUD_AINL_MIC |-> <<"", "", "", "XGPIOC_23", "IIS1_BCLK", "IIS2_BCLK">>,
    PAD_AUD_AINR_MIC |-> <<"", "", "", "XGPIOC_22", "IIS1_DO", "IIS2_DI", "IIS1_DI">>,
    PAD_AUD_AOUTL |-> <<"", "", "", "XGPIOC_25", "IIS1_LRCK", "IIS2_LRCK">>,
    PAD_AUD_AOUTR |-> <<"", "", "", "XGPIOC_24", "IIS1_DI", "IIS2_DO", "IIS1_DO">>]

DuoFunctions == DuoStorageFunctions @@ DuoPowerFunctions @@ DuoMediaFunctions
=============================================================================
